---- MODULE Spec2Model ----
(***************************************************************************)
(* Request execution core of the Hyperfluid Go SDK: Client.do (retry loop, *)
(* backoff, 401-triggered token refresh, status classification) and        *)
(* Client.refreshToken / exchangeKeycloakToken (token exchange under the   *)
(* package-level authMutex); package core (InitFromEnv, GetToken,          *)
(* FetchKeycloakToken); NewClient and GetConfig (Configuration copies);    *)
(* Client.ControlPlane and ControlPlaneClient.Close (the cached            *)
(* control-plane client); the QueryBuilder (validation, order clauses,     *)
(* terminal operations); package core's HandleRequest and bifrost.Request  *)
(* (the goroutine and its result channel); refreshToken called on two      *)
(* clients; the TableQueryBuilder of the progressive API next to the       *)
(* fluent QueryBuilder.                                                    *)
(***************************************************************************)
EXTENDS Integers, Sequences, FiniteSets, TLC

(***************************************************************************)
(* Bounds of the model.                                                    *)
(***************************************************************************)
\* largest configured MaxRetries explored by Spec (one caller)
MaxRetriesBound == 2
\* largest configured MaxRetries explored by SpecConc (two callers)
ConcRetriesBound == 1

\* goroutines calling Do on the one shared client
Callers == {"c1", "c2"}
\* the caller of the single-caller specification
Solo == "c1"

\* no goroutine holds authMutex
NoHolder == "none"

(***************************************************************************)
(* Values.                                                                 *)
(***************************************************************************)
\* a nil *utils.Response
NilResp == [Status |-> "nil", Data |-> "", Error |-> "", HTTPCode |-> 0]
\* a nil error
NilErr == [kind |-> "nil", cause |-> "nil", msg |-> <<>>]

\* utils.StatusOK / utils.StatusError
StatusOK == "ok"
StatusError == "error"

\* sentinel errors of package utils, and ctx.Err()
ErrInvalidRequest == "ErrInvalidRequest"
ErrInvalidConfiguration == "ErrInvalidConfiguration"
ErrAuthenticationFailed == "ErrAuthenticationFailed"
ErrPermissionDenied == "ErrPermissionDenied"
ErrNotFound == "ErrNotFound"
CtxErr == "ctx.Err"
\* the two errors.New-style results of the exhaustion branch
MaxRetriesExceeded == "max retries exceeded"

\* an error value: its kind (the sentinel it is, or wraps with %w at the head
\* of its message, or the fixed head of its message), the kind of the error
\* it wraps behind that, and its message as the fragments fmt.Errorf joins
Err(kind, cause, msg) == [kind |-> kind, cause |-> cause, msg |-> msg]

\* a sentinel error returned as it is
Sentinel(kind) == Err(kind, "nil", <<kind>>)

\* bodies a server may send
GoodJson == "{\"data\": \"success\"}"
NullJson == "null"
EmptyBody == ""
HtmlBody == "<html>"
BadColumn == "bad column"

\* encoding/json.Unmarshal(respBody, &parsedBody) into an `any`
JsonUnmarshal(body) ==
  CASE body = GoodJson -> [ok |-> TRUE, value |-> "map[data:success]"]
    [] body = NullJson -> [ok |-> TRUE, value |-> "<nil>"]
    [] OTHER -> [ok |-> FALSE, value |-> ""]

\* what httpClient.Do and io.ReadAll can hand back to one attempt:
\* a transport error, a body-read error, or a status code with a body
TransportError == [kind |-> "transport", code |-> 0, body |-> ""]
ReadError == [kind |-> "read", code |-> 0, body |-> ""]
\* the transport error of a request whose context is done
CtxTransportError == [kind |-> "ctx", code |-> 0, body |-> ""]
Reply(code, body) == [kind |-> "resp", code |-> code, body |-> body]

ServerReplies ==
  { TransportError, ReadError,
    Reply(200, GoodJson), Reply(200, EmptyBody), Reply(299, NullJson),
    Reply(204, HtmlBody),
    Reply(300, EmptyBody), Reply(500, EmptyBody), Reply(503, BadColumn),
    Reply(400, BadColumn), Reply(499, EmptyBody), Reply(402, BadColumn),
    Reply(401, EmptyBody), Reply(401, BadColumn),
    Reply(403, EmptyBody), Reply(404, EmptyBody), Reply(404, BadColumn) }

\* the replies explored with two concurrent callers
ConcReplies ==
  { TransportError, Reply(200, GoodJson), Reply(500, EmptyBody),
    Reply(401, EmptyBody), Reply(404, EmptyBody) }

\* bearer tokens
NoToken == ""
StaticToken == "test-token"
IssuedTokens == {"tokA", "tokB"}

\* what the token endpoint can hand back to one exchange: a transport error
\* or a status code with a body; a body is valid JSON or not, and a JSON
\* object is its set of <<key, type, value>> members
TokenBody(valid, members) == [valid |-> valid, members |-> members]
TokenReply(code, body) == [kind |-> "resp", code |-> code, body |-> body]
TokenTransportError ==
  [kind |-> "transport", code |-> 0, body |-> TokenBody(FALSE, {})]
TokenJson(t) ==
  TokenReply(200, TokenBody(TRUE, {<<"access_token", "string", t>>,
                                   <<"token_type", "string", "Bearer">>}))
TokenReplies ==
  { TokenTransportError,
    TokenReply(503, TokenBody(TRUE, {<<"access_token", "string", "tokA">>})),
    TokenReply(200, TokenBody(FALSE, {})),
    TokenReply(200, TokenBody(TRUE, {<<"token_type", "string", "Bearer">>})),
    TokenReply(200, TokenBody(TRUE, {<<"access_token", "number", "7">>})),
    TokenJson("") } \cup { TokenJson(t) : t \in IssuedTokens }

\* the token-endpoint replies explored with two concurrent callers
ConcTokenReplies ==
  { TokenTransportError, TokenJson("") } \cup
  { TokenJson(t) : t \in IssuedTokens }

(***************************************************************************)
(* Conditions of the code, one operator each.                              *)
(***************************************************************************)
\* variant: the loop bound off by one, i < c.config.MaxRetries
LoopContinuesExclusive(n, maxRetries) == n < maxRetries

\* variant: the loop bound off by one the other way, i <= MaxRetries + 1
LoopContinuesOneMore(n, maxRetries) == n <= maxRetries + 1

\* request.go:20  for i := 0; i <= c.config.MaxRetries; i++
LoopContinues(n, maxRetries) == n <= maxRetries

\* request.go:21  if i > 0
NeedsBackoff(n) == n > 0

\* variant: the exponent off by one, math.Pow(2, float64(i))
BackoffDelayFromTwoHundred(n) == (2 ^ n) * 100

\* request.go:22  delay in milliseconds
BackoffDelay(n) == (2 ^ (n - 1)) * 100

\* variant: the token check left out
TokenMissingUnchecked(tok) == FALSE

\* request.go:36  if c.config.Token == ""
TokenMissing(tok) == tok = NoToken

\* variant: every status but 200 taken for an error
IsErrorStatusNot200(code) == code # 200

\* variant: the error range opened at its lower end, resp.StatusCode > 300
IsErrorStatusAbove300(code) == code > 300

\* request.go:59  if resp.StatusCode >= 300
IsErrorStatus(code) == code >= 300

\* variant: the 403 branch left out, so that 403 falls to the other 4xx
StatusBranchWithout403(code) ==
  IF code = 401 THEN "unauthorized"
  ELSE IF code = 404 THEN "notfound"
  ELSE IF code >= 400 /\ code < 500 THEN "client"
  ELSE "retry"

\* variant: the client-error range opened at its lower end, code > 400
StatusBranchAbove400(code) ==
  IF code = 401 THEN "unauthorized"
  ELSE IF code = 403 THEN "forbidden"
  ELSE IF code = 404 THEN "notfound"
  ELSE IF code > 400 /\ code < 500 THEN "client"
  ELSE "retry"

\* request.go:66, 75, 79, 84: what the status of an error response decides
\* when no refresh intervenes
StatusBranch(code) ==
  IF code = 401 THEN "unauthorized"
  ELSE IF code = 403 THEN "forbidden"
  ELSE IF code = 404 THEN "notfound"
  ELSE IF code >= 400 /\ code < 500 THEN "client"
  ELSE "retry"

\* auth.go:20-30
hasKeycloakPasswordGrantCredentials(c) ==
  c.KeycloakUsername # "" /\ c.KeycloakPassword # ""

hasKeycloakClientCredentials(c) ==
  c.KeycloakClientID # "" /\ c.KeycloakClientSecret # ""

\* variant: a refresh is tried whatever the configuration
isKeycloakAuthMethodAssumed(c) == TRUE

isKeycloakAuthMethodConfigured(c) ==
  hasKeycloakPasswordGrantCredentials(c) \/ hasKeycloakClientCredentials(c)

\* auth.go:90  the token endpoint can be addressed
EndpointConfigured(c) == ~(c.KeycloakBaseURL = "" \/ c.KeycloakRealm = "")

\* variant: any 2xx status of the token endpoint taken for a success
TokenStatusOKAny2xx(code) == code \in 200..299

\* auth.go:123  resp.StatusCode != http.StatusOK, negated
TokenStatusOK(code) == code = 200

\* variant: an empty access_token accepted
AccessTokenUsableIfString(member) == member[2] = "string"

\* auth.go:131-132  token, ok := parsed["access_token"].(string); ok and
\* token != ""
AccessTokenUsable(member) == member[2] = "string" /\ member[3] # ""

\* auth.go:114-136  the result of exchangeKeycloakToken for one reply
ExchangeResult(reply) ==
  IF reply.kind # "resp"
    THEN [token |-> "",
          err |-> Err(ErrAuthenticationFailed, "transport",
                      <<ErrAuthenticationFailed, ": cannot reach Keycloak: ",
                        "transport">>)]
  ELSE IF ~TokenStatusOK(reply.code)
    THEN [token |-> "",
          err |-> Err(ErrAuthenticationFailed, "nil",
                      <<ErrAuthenticationFailed,
                        ": Keycloak token exchange failed (",
                        ToString(reply.code), "): ", "body">>)]
  ELSE IF ~reply.body.valid
    THEN [token |-> "",
          err |-> Err(ErrAuthenticationFailed, "json",
                      <<ErrAuthenticationFailed,
                        ": invalid Keycloak response: ", "json">>)]
  ELSE IF \E m \in reply.body.members :
            m[1] = "access_token" /\ AccessTokenUsable(m)
    THEN [token |-> (CHOOSE m \in reply.body.members :
                       m[1] = "access_token" /\ m[2] = "string")[3],
          err |-> NilErr]
  ELSE [token |-> "",
        err |-> Err(ErrAuthenticationFailed, "nil",
                    <<ErrAuthenticationFailed,
                      ": missing access_token in Keycloak response">>)]

\* variant: the envelope built without the response body
ErrorEnvelopeWithoutBody(reply) ==
  [Status |-> StatusError, Data |-> "", Error |-> "", HTTPCode |-> reply.code]

\* variant: the envelope built without the status code of the response
ErrorEnvelopeWithoutCode(reply) ==
  [Status |-> StatusError, Data |-> "", Error |-> reply.body, HTTPCode |-> 0]

\* request.go:60-64  the error envelope of a response with status >= 300
ErrorEnvelope(reply) ==
  [Status |-> StatusError, Data |-> "", Error |-> reply.body,
   HTTPCode |-> reply.code]

\* variant: the ok envelope built without the decoded body
OkEnvelopeWithoutData(reply) ==
  [Status |-> StatusOK, Data |-> "", Error |-> "", HTTPCode |-> reply.code]

\* request.go:98-102  the ok envelope
OkEnvelope(reply) ==
  [Status |-> StatusOK, Data |-> JsonUnmarshal(reply.body).value,
   Error |-> "", HTTPCode |-> reply.code]

\* request.go:85  fmt.Errorf("%w: %s", utils.ErrInvalidRequest, string(respBody))
ClientError(reply) ==
  Err(ErrInvalidRequest, "nil", <<ErrInvalidRequest, ": ", reply.body>>)

\* request.go:88  fmt.Errorf("server returned status %d", resp.StatusCode)
ServerStatusError(reply) ==
  Err("server returned status", "nil",
      <<"server returned status ", ToString(reply.code)>>)

\* request.go:94  fmt.Errorf("failed to parse response body: %w", err)
ParseError ==
  Err("failed to parse response body", "json",
      <<"failed to parse response body: ", "json">>)

\* request.go:47, 55  the error of httpClient.Do or io.ReadAll
SendErrorOf(reply) == Err(reply.kind, "nil", <<reply.kind>>)

\* request.go:105-109  what do returns when the loop runs out
Exhausted(e, r) ==
  IF r # NilResp
    THEN [resp |-> r,
          err |-> Err(MaxRetriesExceeded, "nil",
                      <<"max retries exceeded, last response was: ", r.Error>>)]
    ELSE [resp |-> NilResp,
          err |-> Err(MaxRetriesExceeded, e.kind,
                      <<"max retries exceeded, last error: ">> \o e.msg)]

\* the last element of a non-empty sequence
Last(seq) == seq[Len(seq)]

\* strings.Contains(err.Error(), s) for s a whole fragment of the message
MessageContains(e, s) == s = "" \/ \E k \in 1..Len(e.msg) : e.msg[k] = s

\* the outcome of one send attempt as the error taxonomy names it
OutcomeOf(reply) ==
  IF reply.kind = "ctx" THEN "cancelled"
  ELSE IF reply.kind # "resp" THEN "transient"
  ELSE IF reply.code < 300
    THEN IF reply.body \in {GoodJson, NullJson} THEN "ok" ELSE "transient"
  ELSE IF reply.code = 401 THEN "401"
  ELSE IF reply.code = 403 THEN "403"
  ELSE IF reply.code = 404 THEN "404"
  ELSE IF reply.code \in 400..499 THEN "4xx"
  ELSE "transient"

(***************************************************************************)
(* State.                                                                  *)
(***************************************************************************)
VARIABLES
  config,       \* c.config without Token: fixed after NewClient
  token,        \* c.config.Token, the cached bearer token
  authMutex,    \* the goroutine holding authMutex, or NoHolder
  pc,           \* where each call of do stands
  i,            \* the loop index of each call
  lastErr,      \* lastErr of each call
  lastResp,     \* lastResp of each call
  ctxDone,      \* the context of each call is done
  reqValid,     \* http.NewRequestWithContext accepts the call's method and url
  ret,          \* what each call returned
  sends,        \* httpClient.Do calls made by each call
  sleeps,       \* backoff waits each call sat through
  refreshCalls, \* refreshToken calls made by each call
  exchanges,    \* round trips made to the token endpoint, by anyone
  outcomes,     \* the outcome of every send of each call, in order
  sentToken,    \* the token in the Authorization header of the last send
  cancelAt,     \* where the call stood when its context was cancelled
  waited,       \* the call found authMutex held when it asked for it
  refreshRet,   \* what the call's last refreshToken returned
  lastReply,    \* what the call's last send got back
  tokenSource,  \* where the cached token came from: static, cc or pw
  grants,       \* the grants the call's last refreshToken sent, in order
  delays,       \* the delay of every backoff wait of each call, in ms
  parseFailures \* sends of each call answered < 300 with an unparsable body

\* package core: the global configuration behind InitFromEnv and GetToken
VARIABLES
  globalConfiguration, \* *utils.Configuration, nil before InitFromEnv
  envToken,            \* the value of HYPERFLUID_TOKEN in the environment
  inits,               \* InitFromEnv calls made
  coreLast             \* the last call into package core and what it gave

coreVars == <<globalConfiguration, envToken, inits, coreLast>>

\* the configuration values on either side of NewClient and GetConfig
VARIABLES
  mem,        \* the Configuration value stored at each place
  clientAt,   \* the place of the Client's config field, once constructed
  snapAt,     \* the place of the value GetConfig returned last
  kept        \* the value each holder (caller, client, holder of the
              \* snapshot) last wrote or was given

copyVars == <<mem, clientAt, snapAt, kept>>

\* control_plane.go: the cache of control-plane clients and its lock
VARIABLES
  controlPlaneURL,     \* c.config.ControlPlaneURL
  controlPlaneClients, \* the cache: the entry of each Client, or none
  cpOn,                \* the Client each ControlPlane() call was made on
  cpReaders,           \* goroutines holding controlPlaneMu for reading
  cpWriter,            \* the goroutine holding controlPlaneMu for writing
  cpPc,                \* where each ControlPlane() call stands
  cpRet,               \* what each goroutine's last ControlPlane() returned
  cpCreated,           \* the Client each ControlPlaneClient created so far
                       \* was created for, in order of creation
  cpClosed             \* ControlPlaneClients Close was called on

cpVars == <<controlPlaneURL, controlPlaneClients, cpOn, cpReaders, cpWriter,
            cpPc, cpRet, cpCreated, cpClosed>>

\* request.go:59-90 applied to one status code
VARIABLES
  stCode,     \* resp.StatusCode of the response at hand, 0 before any
  stHandling  \* what do decided for it

\* query_builder.go: one QueryBuilder and its terminal operation
VARIABLES
  qb,     \* the fields of the QueryBuilder
  qbLast, \* the builder method called last and its arguments
  qbRet   \* the terminal operation called, its error, and what it sent

\* package core: HandleRequest
VARIABLES
  bifrostRequest, \* the request HandleRequest was called with
  handled         \* what it returned and the executor it called

\* refreshToken called on unrelated Client instances of one process
VARIABLES
  clients \* each Client: its configuration, token, and refreshToken call

\* builders/progressive: one TableQueryBuilder, given the calls of qb
VARIABLES
  tq,   \* the fields of the TableQueryBuilder
  tqRet \* what its Get sent

\* bifrost.go:32-40  Request: its goroutine, its channel and the caller
VARIABLES
  requestPc,  \* where the goroutine of Request stands
  resultChan, \* the channel: what it buffers and whether it is closed
  received    \* what the caller received from the channel, in order

\* the callers in front of Client.do and the classification of one status
frontVars == <<stCode, stHandling, qb, qbLast, qbRet, bifrostRequest, handled>>

\* refreshToken on unrelated clients, the progressive builder, the channel
\* of Request
sideVars == <<clients, tq, tqRet, requestPc, resultChan, received>>

\* the state of Client.do and Client.refreshToken
doVars == <<config, token, authMutex, pc, i, lastErr, lastResp, ctxDone,
            reqValid, ret, sends, sleeps, refreshCalls, exchanges, outcomes,
            sentToken, cancelAt, waited, refreshRet, lastReply, tokenSource,
            grants, delays, parseFailures>>

\* doVars without the lock, which belongs to the package and not to a Client
ownVars == <<config, token, pc, i, lastErr, lastResp, ctxDone, reqValid, ret,
             sends, sleeps, refreshCalls, exchanges, outcomes, sentToken,
             cancelAt, waited, refreshRet, lastReply, tokenSource, grants,
             delays, parseFailures>>

\* the state Client.do leaves alone
otherVars == <<coreVars, copyVars, cpVars, frontVars, sideVars>>

vars == <<config, token, authMutex, pc, i, lastErr, lastResp, ctxDone,
          reqValid, ret, sends, sleeps, refreshCalls, exchanges, outcomes,
          sentToken, cancelAt, waited, refreshRet, lastReply, tokenSource,
          grants, delays, parseFailures, otherVars>>

clientVars ==
  <<config, token, authMutex, exchanges, tokenSource, otherVars>>
monitorVars ==
  <<sends, sleeps, refreshCalls, outcomes, sentToken, waited, refreshRet,
    lastReply, grants, delays, parseFailures>>

\* the configurations a client is built from: a retry count from 0 up, and
\* each OIDC field empty or set
Configurations(maxRetries) ==
  [MaxRetries : 0..maxRetries,
   KeycloakBaseURL : {"", "https://keycloak"},
   KeycloakRealm : {"realm"},
   KeycloakClientID : {"", "client"},
   KeycloakClientSecret : {"", "secret"},
   KeycloakUsername : {"", "demo"},
   KeycloakPassword : {"", "demo"}]

\* no call has started
Idle ==
  /\ authMutex = NoHolder
  /\ pc = [p \in Callers |-> "idle"]
  /\ i = [p \in Callers |-> 0]
  /\ lastErr = [p \in Callers |-> NilErr]
  /\ lastResp = [p \in Callers |-> NilResp]
  /\ ctxDone = [p \in Callers |-> FALSE]
  /\ reqValid = [p \in Callers |-> TRUE]
  /\ ret = [p \in Callers |-> [resp |-> NilResp, err |-> NilErr]]
  /\ sends = [p \in Callers |-> 0]
  /\ sleeps = [p \in Callers |-> 0]
  /\ refreshCalls = [p \in Callers |-> 0]
  /\ exchanges = 0
  /\ outcomes = [p \in Callers |-> <<>>]
  /\ sentToken = [p \in Callers |-> NoToken]
  /\ cancelAt = [p \in Callers |-> "none"]
  /\ waited = [p \in Callers |-> FALSE]
  /\ refreshRet = [p \in Callers |-> [token |-> "", err |-> NilErr]]
  /\ lastReply = [p \in Callers |-> TransportError]
  /\ tokenSource = "static"
  /\ grants = [p \in Callers |-> <<>>]
  /\ delays = [p \in Callers |-> <<>>]
  /\ parseFailures = [p \in Callers |-> 0]

\* package core before InitFromEnv
NilConfiguration == [isNil |-> TRUE, Token |-> ""]
NoCoreCall == [op |-> "none", before |-> NilConfiguration, env |-> "",
               acquired |-> "", result |-> ""]

CoreIdle ==
  /\ globalConfiguration = NilConfiguration
  /\ envToken = NoToken
  /\ inits = 0
  /\ coreLast = NoCoreCall

\* no Client constructed: only the caller's Configuration value exists
Places == {"caller", "client", "snapshot"}
NoPlace == "none"
Unset == [Token |-> "unset", BaseURL |-> "unset"]

CopyIdle ==
  /\ mem = [s \in Places |-> Unset]
  /\ clientAt = NoPlace
  /\ snapAt = NoPlace
  /\ kept = [s \in Places |-> Unset]

\* no ControlPlane() call made on either of two Clients, the keys of the
\* cache
NoInstance == 0
Owners == {"client", "other"}

ControlPlaneIdle ==
  /\ controlPlaneURL = ""
  /\ controlPlaneClients = [o \in Owners |-> NoInstance]
  /\ cpOn = [p \in Callers |-> "client"]
  /\ cpReaders = {}
  /\ cpWriter = NoHolder
  /\ cpPc = [p \in Callers |-> "idle"]
  /\ cpRet = [p \in Callers |-> NoInstance]
  /\ cpCreated = <<>>
  /\ cpClosed = {}

\* query_builder.go:47-54  newQueryBuilder(client), orgID from the client's
\* configuration
newQueryBuilder(orgID) ==
  [errors |-> <<>>, orgID |-> orgID, catalogName |-> "", schemaName |-> "",
   tableName |-> "", selectCols |-> <<>>, filters |-> <<>>, orderBy |-> <<>>,
   limitVal |-> 0, offsetVal |-> 0, rawParams |-> <<>>]

\* a request without query parameters
NoParams ==
  [raw |-> <<>>, select |-> <<>>, filters |-> <<>>, order |-> <<>>,
   limit |-> "", offset |-> "", count |-> ""]

\* no builder method and no terminal operation called
NoCall == [method |-> "none", name |-> "", direction |-> <<>>, n |-> 0]
NoTerminal ==
  [op |-> "none", err |-> NilErr, sent |-> FALSE, params |-> NoParams]

\* a nil payload pointer (a payload is known by the field its request type
\* requires: Query, Catalog or SQL), and HandleRequest not called
NilPayload == [isNil |-> TRUE, required |-> ""]
NoRequest ==
  [Type |-> "", GraphQLPayload |-> NilPayload, OpenAPIPayload |-> NilPayload,
   PostgresPayload |-> NilPayload]
NotHandled == [resp |-> NilResp, err |-> NilErr, executor |-> "none"]

\* no response classified, no builder method called, no request handled
FrontIdle ==
  /\ stCode = 0
  /\ stHandling = "none"
  /\ qb = newQueryBuilder("")
  /\ qbLast = NoCall
  /\ qbRet = NoTerminal
  /\ bifrostRequest = NoRequest
  /\ handled = NotHandled

\* no Client but the one of config, no TableQueryBuilder call, no Request
NoConfiguration ==
  [KeycloakBaseURL |-> "", KeycloakRealm |-> "", KeycloakClientID |-> "",
   KeycloakClientSecret |-> "", KeycloakUsername |-> "",
   KeycloakPassword |-> ""]
NoExchange == [grant |-> "none", sent |-> FALSE, reply |-> TokenTransportError,
               token |-> "", err |-> NilErr]
NoRefresh == [token |-> "", err |-> NilErr]
ClientIDs == {"a", "b"}
NoClient ==
  [config |-> NoConfiguration, token |-> NoToken, pc |-> "idle",
   exchanged |-> NoExchange, ret |-> NoRefresh]

NoTableQueryBuilder ==
  [selectCols |-> <<>>, filters |-> <<>>, orderBy |-> <<>>, limitVal |-> 0,
   offsetVal |-> 0, rawParams |-> <<>>]

SideIdle ==
  /\ clients = [c \in ClientIDs |-> NoClient]
  /\ tq = NoTableQueryBuilder
  /\ tqRet = [sent |-> FALSE, params |-> NoParams]
  /\ requestPc = "none"
  /\ resultChan = [buf |-> <<>>, closed |-> FALSE]
  /\ received = <<>>

\* NewClient(config) for any configuration and any initial token
Init ==
  /\ config \in Configurations(MaxRetriesBound)
  /\ token \in {NoToken, StaticToken}
  /\ Idle
  /\ CoreIdle /\ CopyIdle /\ ControlPlaneIdle /\ FrontIdle /\ SideIdle

(***************************************************************************)
(* Control flow of do shared by its branches.                              *)
(***************************************************************************)
\* request.go:20-21  the head of iteration n: out of attempts, wait, or build
LoopHead(n, maxRetries) ==
  IF ~LoopContinues(n, maxRetries) THEN "exhausted"
  ELSE IF NeedsBackoff(n) THEN "backoff"
  ELSE "build"

\* do returns (resp, err)
Return(p, resp, err) ==
  /\ pc' = [pc EXCEPT ![p] = "done"]
  /\ ret' = [ret EXCEPT ![p] = [resp |-> resp, err |-> err]]
  /\ i' = i

\* `continue`: i++ and the head of the next iteration, with lastErr = e and
\* lastResp = r (request.go:20, 105-109)
Continue(p, e, r) ==
  /\ i' = [i EXCEPT ![p] = @ + 1]
  /\ IF LoopHead(i[p] + 1, config.MaxRetries) = "exhausted"
       THEN /\ pc' = [pc EXCEPT ![p] = "done"]
            /\ ret' = [ret EXCEPT ![p] = Exhausted(e, r)]
       ELSE /\ pc' = [pc EXCEPT ![p] = LoopHead(i[p] + 1, config.MaxRetries)]
            /\ ret' = ret

\* variant: an unparsable body of a response < 300 ends the call at once
ParseFailedIsTerminal(p, e, r) ==
  /\ Return(p, NilResp, e)

\* request.go:93-96  json.Unmarshal fails: lastErr is set and the loop
\* continues
ParseFailed(p, e, r) ==
  /\ Continue(p, e, r)

(***************************************************************************)
(* Client.do, request.go:16-110                                            *)
(***************************************************************************)
\* a goroutine calls Do(ctx, method, url, body); valid: method and url are
\* ones http.NewRequestWithContext accepts
Call(p, valid) ==
  /\ pc[p] = "idle"
  /\ reqValid' = [reqValid EXCEPT ![p] = valid]
  /\ i' = i
  /\ IF LoopHead(0, config.MaxRetries) = "exhausted"
       THEN /\ pc' = [pc EXCEPT ![p] = "done"]
            /\ ret' = [ret EXCEPT ![p] = Exhausted(NilErr, NilResp)]
       ELSE /\ pc' = [pc EXCEPT ![p] = LoopHead(0, config.MaxRetries)]
            /\ ret' = ret
  /\ UNCHANGED <<clientVars, monitorVars, lastErr, lastResp, ctxDone, cancelAt>>

\* the caller cancels the context (or its deadline passes) while do runs
Cancel(p) ==
  /\ pc[p] \notin {"idle", "done"}
  /\ ~ctxDone[p]
  /\ ctxDone' = [ctxDone EXCEPT ![p] = TRUE]
  /\ cancelAt' = [cancelAt EXCEPT ![p] = pc[p]]
  /\ UNCHANGED <<clientVars, monitorVars, pc, i, lastErr, lastResp, reqValid, ret>>

\* variant: a wait that does not watch ctx.Done()
TimerWakesRegardless(done, at) == TRUE

\* request.go:24-25  the select is woken by the timer: a goroutine parked in
\* the select when the context is cancelled is woken by ctx.Done instead; a
\* context done before the select is entered leaves the choice open, should
\* the timer have run out by the time the select polls
TimerWakes(done, at) == done => at # "backoff"

TimerFires(p) ==
  /\ pc[p] = "backoff"
  /\ TimerWakes(ctxDone[p], cancelAt[p])
  /\ pc' = [pc EXCEPT ![p] = "build"]
  /\ sleeps' = [sleeps EXCEPT ![p] = @ + 1]
  /\ delays' = [delays EXCEPT ![p] = Append(@, BackoffDelay(i[p]))]
  /\ UNCHANGED <<clientVars, i, lastErr, lastResp, ctxDone, reqValid, ret,
                 sends, refreshCalls, outcomes, sentToken, cancelAt, waited,
                 refreshRet, lastReply, grants, parseFailures>>

\* request.go:26-27  case <-ctx.Done(): return nil, ctx.Err()
BackoffCancelled(p) ==
  /\ pc[p] = "backoff"
  /\ ctxDone[p]
  /\ Return(p, NilResp, Sentinel(CtxErr))
  /\ UNCHANGED <<clientVars, monitorVars, lastErr, lastResp, ctxDone,
                 reqValid, cancelAt>>

\* request.go:31-34  http.NewRequestWithContext fails
BuildFails(p) ==
  /\ pc[p] = "build"
  /\ ~reqValid[p]
  /\ Return(p, NilResp, Err(ErrInvalidRequest, "http.NewRequest",
                           <<ErrInvalidRequest, ": ", "http.NewRequest">>))
  /\ UNCHANGED <<clientVars, monitorVars, lastErr, lastResp, ctxDone,
                 reqValid, cancelAt>>

\* variant: a client without a token that has OIDC credentials fetches one
\* before its first send
NoTokenAvailableRefreshes(p) ==
  /\ pc[p] = "build"
  /\ reqValid[p]
  /\ TokenMissing(token)
  /\ IF isKeycloakAuthMethodConfigured(config)
       THEN /\ pc' = [pc EXCEPT ![p] = "lock"]
            /\ refreshCalls' = [refreshCalls EXCEPT ![p] = @ + 1]
            /\ UNCHANGED <<i, ret>>
       ELSE /\ Return(p, NilResp, Sentinel(ErrInvalidConfiguration))
            /\ UNCHANGED refreshCalls
  /\ UNCHANGED <<clientVars, sends, sleeps, outcomes, sentToken, waited,
                 refreshRet, lastReply, grants, delays, parseFailures,
                 lastErr, lastResp, ctxDone, reqValid, cancelAt>>

\* request.go:36-38  no token
NoTokenAvailable(p) ==
  /\ pc[p] = "build"
  /\ reqValid[p]
  /\ TokenMissing(token)
  /\ Return(p, NilResp, Sentinel(ErrInvalidConfiguration))
  /\ UNCHANGED <<clientVars, monitorVars, lastErr, lastResp, ctxDone,
                 reqValid, cancelAt>>

\* request.go:40-45  the request leaves with the cached token
SendStarts(p) ==
  /\ pc[p] = "build"
  /\ reqValid[p]
  /\ ~TokenMissing(token)
  /\ pc' = [pc EXCEPT ![p] = "send"]
  /\ sends' = [sends EXCEPT ![p] = @ + 1]
  /\ sentToken' = [sentToken EXCEPT ![p] = token]
  /\ UNCHANGED <<clientVars, i, lastErr, lastResp, ctxDone, reqValid, ret,
                 sleeps, refreshCalls, outcomes, cancelAt, waited, refreshRet,
                 lastReply, grants, delays, parseFailures>>

\* the replies one send can get: a done context can fail the transport
RepliesFor(p, replies) ==
  IF ctxDone[p] THEN replies \cup {CtxTransportError} ELSE replies

\* request.go:45-57  httpClient.Do or io.ReadAll returns an error
SendFails(p, reply) ==
  /\ pc[p] = "send"
  /\ reply.kind # "resp"
  /\ outcomes' = [outcomes EXCEPT ![p] = Append(@, OutcomeOf(reply))]
  /\ lastReply' = [lastReply EXCEPT ![p] = reply]
  /\ lastErr' = [lastErr EXCEPT ![p] = SendErrorOf(reply)]
  /\ lastResp' = lastResp
  /\ Continue(p, SendErrorOf(reply), lastResp[p])
  /\ UNCHANGED <<clientVars, ctxDone, reqValid, sends, sleeps, refreshCalls,
                 sentToken, cancelAt, waited, refreshRet, grants, delays,
                 parseFailures>>

\* request.go:59-90  a response with status >= 300
SendError(p, reply) ==
  /\ pc[p] = "send"
  /\ reply.kind = "resp"
  /\ IsErrorStatus(reply.code)
  /\ outcomes' = [outcomes EXCEPT ![p] = Append(@, OutcomeOf(reply))]
  /\ lastReply' = [lastReply EXCEPT ![p] = reply]
  /\ lastResp' = [lastResp EXCEPT ![p] = ErrorEnvelope(reply)]
  /\ CASE StatusBranch(reply.code) = "unauthorized" ->
            IF isKeycloakAuthMethodConfigured(config)
              THEN /\ pc' = [pc EXCEPT ![p] = "lock"]
                   /\ refreshCalls' = [refreshCalls EXCEPT ![p] = @ + 1]
                   /\ waited' = [waited EXCEPT ![p] = authMutex # NoHolder]
                   /\ UNCHANGED <<i, ret, lastErr>>
              ELSE /\ Return(p, ErrorEnvelope(reply),
                             Sentinel(ErrAuthenticationFailed))
                   /\ UNCHANGED <<refreshCalls, waited, lastErr>>
       [] StatusBranch(reply.code) = "forbidden" ->
            /\ Return(p, ErrorEnvelope(reply), Sentinel(ErrPermissionDenied))
            /\ UNCHANGED <<refreshCalls, waited, lastErr>>
       [] StatusBranch(reply.code) = "notfound" ->
            /\ Return(p, ErrorEnvelope(reply), Sentinel(ErrNotFound))
            /\ UNCHANGED <<refreshCalls, waited, lastErr>>
       [] StatusBranch(reply.code) = "client" ->
            /\ Return(p, ErrorEnvelope(reply), ClientError(reply))
            /\ UNCHANGED <<refreshCalls, waited, lastErr>>
       [] OTHER ->
            /\ lastErr' = [lastErr EXCEPT ![p] = ServerStatusError(reply)]
            /\ Continue(p, ServerStatusError(reply), ErrorEnvelope(reply))
            /\ UNCHANGED <<refreshCalls, waited>>
  /\ UNCHANGED <<clientVars, ctxDone, reqValid, sends, sleeps, sentToken,
                 cancelAt, refreshRet, grants, delays, parseFailures>>

\* request.go:92-102  a response with status < 300
SendSucceeds(p, reply) ==
  /\ pc[p] = "send"
  /\ reply.kind = "resp"
  /\ ~IsErrorStatus(reply.code)
  /\ outcomes' = [outcomes EXCEPT ![p] = Append(@, OutcomeOf(reply))]
  /\ lastReply' = [lastReply EXCEPT ![p] = reply]
  /\ lastResp' = lastResp
  /\ IF JsonUnmarshal(reply.body).ok
       THEN /\ Return(p, OkEnvelope(reply), NilErr)
            /\ UNCHANGED <<lastErr, parseFailures>>
       ELSE /\ lastErr' = [lastErr EXCEPT ![p] = ParseError]
            /\ parseFailures' = [parseFailures EXCEPT ![p] = @ + 1]
            /\ ParseFailed(p, ParseError, lastResp[p])
  /\ UNCHANGED <<clientVars, ctxDone, reqValid, sends, sleeps, refreshCalls,
                 sentToken, cancelAt, waited, refreshRet, grants, delays>>

(***************************************************************************)
(* Client.refreshToken, auth.go:33-65, called from request.go:68           *)
(***************************************************************************)
\* auth.go:45-64  the grant refreshToken turns to first: an exchange that
\* cannot address the token endpoint fails before any round trip
FirstGrant(c) ==
  IF hasKeycloakClientCredentials(c) /\ EndpointConfigured(c) THEN "cc"
  ELSE IF hasKeycloakPasswordGrantCredentials(c) /\ EndpointConfigured(c)
    THEN "pw"
  ELSE "none"

\* auth.go:51-64  what follows a failed client-credentials exchange
AfterClientCredentialsFailure(c) ==
  IF hasKeycloakPasswordGrantCredentials(c) THEN "pw" ELSE "none"

\* auth.go:90-92, 114-134  the sentinel a failed exchange wraps: the token
\* endpoint cannot be addressed, or it was asked and gave no token
ExchangeErrorKind(c) ==
  IF EndpointConfigured(c) THEN ErrAuthenticationFailed
                           ELSE ErrInvalidConfiguration

\* auth.go:61, 64  the error of a refreshToken that issued no successful
\* exchange
RefreshError(c) ==
  IF hasKeycloakPasswordGrantCredentials(c)
    THEN Err(ErrAuthenticationFailed, ExchangeErrorKind(c),
             <<ErrAuthenticationFailed, ": password grant failed: ",
               ExchangeErrorKind(c)>>)
    ELSE Sentinel(ErrInvalidConfiguration)

\* variant: a failed refresh clears the cached token
RefreshFailedClearingToken(p) ==
  /\ Return(p, lastResp[p], Sentinel(ErrAuthenticationFailed))
  /\ refreshRet' = [refreshRet EXCEPT ![p] =
                      [token |-> "", err |-> RefreshError(config)]]
  /\ token' = NoToken
  /\ UNCHANGED <<tokenSource, lastErr, lastResp>>

\* request.go:68-72  refreshToken failed: do returns the 401 envelope
RefreshFailed(p) ==
  /\ Return(p, lastResp[p], Sentinel(ErrAuthenticationFailed))
  /\ refreshRet' = [refreshRet EXCEPT ![p] =
                      [token |-> "", err |-> RefreshError(config)]]
  /\ UNCHANGED <<token, tokenSource, lastErr, lastResp>>

\* variant: the new token is returned but not stored in c.config.Token
RefreshSucceededUnstored(p, newToken) ==
  /\ token' = token
  /\ tokenSource' = tokenSource
  /\ refreshRet' = [refreshRet EXCEPT ![p] =
                      [token |-> newToken, err |-> NilErr]]
  /\ Continue(p, lastErr[p], lastResp[p])
  /\ UNCHANGED <<lastErr, lastResp>>

\* auth.go:48-49, 58-59 and request.go:68-69  the exchange gave newToken
RefreshSucceeded(p, newToken) ==
  /\ token' = newToken
  /\ tokenSource' = Last(grants[p])
  /\ refreshRet' = [refreshRet EXCEPT ![p] =
                      [token |-> newToken, err |-> NilErr]]
  /\ Continue(p, lastErr[p], lastResp[p])
  /\ UNCHANGED <<lastErr, lastResp>>

\* variant: refreshToken entered without taking the lock
LockFreeAlways(holder) == TRUE

\* variant: the lock is released when refreshToken succeeds only
UnlockOnSuccessOnly(p, err) == IF err = NilErr THEN NoHolder ELSE p

\* auth.go:35  defer authMutex.Unlock(): the holder of authMutex after
\* refreshToken, entered by p, has returned err
Unlock(p, err) == NoHolder

\* auth.go:34  authMutex.Lock() returns only when no goroutine holds the lock
LockFree(holder) == holder = NoHolder

\* auth.go:34  authMutex.Lock() succeeds, and refreshToken runs up to its
\* first round trip (or to its return, when it makes none)
RefreshLock(p) ==
  /\ pc[p] = "lock"
  /\ LockFree(authMutex)
  /\ IF FirstGrant(config) = "none"
       THEN /\ RefreshFailed(p)
            /\ grants' = [grants EXCEPT ![p] = <<>>]
            /\ UNCHANGED <<authMutex, exchanges>>
       ELSE /\ authMutex' = p
            /\ exchanges' = exchanges + 1
            /\ grants' = [grants EXCEPT ![p] = <<FirstGrant(config)>>]
            /\ pc' = [pc EXCEPT ![p] =
                        IF FirstGrant(config) = "cc" THEN "exchangeCC"
                                                     ELSE "exchangePW"]
            /\ UNCHANGED <<token, tokenSource, i, ret, lastErr, lastResp,
                           refreshRet>>
  /\ UNCHANGED <<config, otherVars, ctxDone, reqValid, sends, sleeps,
                 refreshCalls, outcomes, sentToken, cancelAt, waited,
                 lastReply, delays, parseFailures>>

\* auth.go:46-53  the client-credentials exchange returns
ClientCredentialsReturns(p, reply) ==
  /\ pc[p] = "exchangeCC"
  /\ authMutex = p
  /\ IF ExchangeResult(reply).err = NilErr
       THEN /\ RefreshSucceeded(p, ExchangeResult(reply).token)
            /\ authMutex' = Unlock(p, NilErr)
            /\ UNCHANGED <<exchanges, grants>>
       ELSE IF AfterClientCredentialsFailure(config) = "pw"
         THEN /\ pc' = [pc EXCEPT ![p] = "exchangePW"]
              /\ exchanges' = exchanges + 1
              /\ grants' = [grants EXCEPT ![p] = Append(@, "pw")]
              /\ UNCHANGED <<authMutex, token, tokenSource, i, ret, lastErr,
                             lastResp, refreshRet>>
         ELSE /\ RefreshFailed(p)
              /\ authMutex' = Unlock(p, RefreshError(config))
              /\ UNCHANGED <<exchanges, grants>>
  /\ UNCHANGED <<config, otherVars, ctxDone, reqValid, sends, sleeps,
                 refreshCalls, outcomes, sentToken, cancelAt, waited,
                 lastReply, delays, parseFailures>>

\* auth.go:56-61  the password-grant exchange returns
PasswordGrantReturns(p, reply) ==
  /\ pc[p] = "exchangePW"
  /\ authMutex = p
  /\ IF ExchangeResult(reply).err = NilErr
       THEN /\ RefreshSucceeded(p, ExchangeResult(reply).token)
            /\ authMutex' = Unlock(p, NilErr)
       ELSE /\ RefreshFailed(p)
            /\ authMutex' = Unlock(p, RefreshError(config))
  /\ UNCHANGED <<exchanges, grants>>
  /\ UNCHANGED <<config, otherVars, ctxDone, reqValid, sends, sleeps,
                 refreshCalls, outcomes, sentToken, cancelAt, waited,
                 lastReply, delays, parseFailures>>

(***************************************************************************)
(* Specifications.                                                         *)
(***************************************************************************)
\* the steps of do and of the refreshToken it calls, for one caller
DoStep(p, replies, tokenReplies) ==
  \/ TimerFires(p)
  \/ NoTokenAvailable(p)
  \/ SendStarts(p)
  \/ \E reply \in RepliesFor(p, replies) : SendFails(p, reply)
  \/ \E reply \in RepliesFor(p, replies) : SendError(p, reply)
  \/ \E reply \in RepliesFor(p, replies) : SendSucceeds(p, reply)
  \/ RefreshLock(p)
  \/ \E reply \in tokenReplies : ClientCredentialsReturns(p, reply)
  \/ \E reply \in tokenReplies : PasswordGrantReturns(p, reply)

\* one goroutine calls Do once, with any request and a context that may be
\* cancelled at any time, on a client of any configuration
Next ==
  \/ \E valid \in BOOLEAN : Call(Solo, valid)
  \/ Cancel(Solo)
  \/ BackoffCancelled(Solo)
  \/ BuildFails(Solo)
  \/ DoStep(Solo, ServerReplies, TokenReplies)

Spec == Init /\ [][Next]_vars

\* two goroutines call Do once each on one shared client, with well-formed
\* requests and contexts that stay live; the token endpoint and the client id
\* are configured, the client secret is set or not, and the user name and
\* password are both set or both empty
InitConc ==
  /\ config \in Configurations(ConcRetriesBound)
  /\ config.KeycloakBaseURL # ""
  /\ config.KeycloakClientID # ""
  /\ config.KeycloakUsername = config.KeycloakPassword
  /\ token \in {NoToken, StaticToken}
  /\ Idle
  /\ CoreIdle /\ CopyIdle /\ ControlPlaneIdle /\ FrontIdle /\ SideIdle

NextConc ==
  \E p \in Callers :
    \/ Call(p, TRUE)
    \/ DoStep(p, ConcReplies, ConcTokenReplies)

SpecConc == InitConc /\ [][NextConc]_vars

\* the replies explored when every send and every exchange returns: a
\* transport error, a success and the 401 that starts a refresh; a failed and
\* a successful exchange
LiveReplies == { TransportError, Reply(200, GoodJson), Reply(401, EmptyBody) }
LiveTokenReplies == { TokenTransportError, TokenJson("tokA") }

NextLive ==
  \E p \in Callers :
    \/ Call(p, TRUE)
    \/ DoStep(p, LiveReplies, LiveTokenReplies)

\* every send and every token exchange of a call returns, timers fire and a
\* goroutine that can take a free lock is scheduled: no step of do that stays
\* possible is put off for ever
LiveFairness ==
  \A p \in Callers : WF_vars(DoStep(p, LiveReplies, LiveTokenReplies))

\* two goroutines call Do once each on one shared client, and every send and
\* every exchange returns
SpecLive == InitConc /\ [][NextLive]_vars /\ LiveFairness

(***************************************************************************)
(* Package core: InitFromEnv, GetToken, FetchKeycloakToken, UpdateToken.   *)
(***************************************************************************)
\* InitFromEnv calls explored
MaxInits == 2

\* a Client nobody calls
BlankConfiguration ==
  [MaxRetries |-> 0, KeycloakBaseURL |-> "", KeycloakRealm |-> "realm",
   KeycloakClientID |-> "", KeycloakClientSecret |-> "",
   KeycloakUsername |-> "", KeycloakPassword |-> ""]

NoClientInUse ==
  /\ config = BlankConfiguration
  /\ token = NoToken
  /\ Idle

\* core/configuration.go:17  &utils.Configuration{Token: tok, ...}
CoreConfiguration(tok) == [isNil |-> FALSE, Token |-> tok]

\* part_002:66-87  the token FetchKeycloakToken returns for one reply of the
\* token endpoint, "" when it returns an error
KeycloakGives(reply) ==
  IF /\ reply.kind = "resp"
     /\ reply.code = 200
     /\ reply.body.valid
     /\ \E m \in reply.body.members :
          m[1] = "access_token" /\ m[2] = "string" /\ m[3] # ""
    THEN (CHOOSE m \in reply.body.members :
            m[1] = "access_token" /\ m[2] = "string")[3]
    ELSE ""

\* part_002:90-97  UpdateToken, of a configuration that is not nil
UpdateToken(cfg, newToken) ==
  IF cfg.isNil THEN cfg ELSE [cfg EXCEPT !.Token = newToken]

\* part_002:37-88  FetchKeycloakToken: the token it returns ("" with an
\* error) and the global configuration it leaves
FetchKeycloakToken(cfg, reply) ==
  IF cfg.isNil THEN [token |-> "", after |-> cfg]
  ELSE [token |-> KeycloakGives(reply),
        after |-> IF KeycloakGives(reply) = "" THEN cfg
                  ELSE UpdateToken(cfg, KeycloakGives(reply))]

\* part_002:15-35  GetToken: the token it returns, the token it got from
\* Keycloak on the way, and the global configuration it leaves
GetToken(cfg, env, reply) ==
  IF cfg.isNil
    THEN [token |-> "", acquired |-> "", after |-> cfg]
  ELSE IF cfg.Token # ""
    THEN [token |-> cfg.Token, acquired |-> "", after |-> cfg]
  ELSE IF FetchKeycloakToken(cfg, reply).token = ""
    THEN [token |-> env, acquired |-> "", after |-> cfg]
  ELSE [token |-> FetchKeycloakToken(cfg, reply).token,
        acquired |-> FetchKeycloakToken(cfg, reply).token,
        after |-> FetchKeycloakToken(cfg, reply).after]

\* the .env file is edited: HYPERFLUID_TOKEN is set or cleared
SetEnv(tok) ==
  /\ envToken # tok
  /\ envToken' = tok
  /\ UNCHANGED <<globalConfiguration, inits, coreLast>>
  /\ UNCHANGED <<doVars, copyVars, cpVars, frontVars, sideVars>>

\* core/configuration.go:13-42  InitFromEnv: the literal, GetToken's call in
\* it included, is evaluated before globalConfiguration is assigned
InitFromEnv(reply) ==
  /\ inits < MaxInits
  /\ inits' = inits + 1
  /\ globalConfiguration' =
       CoreConfiguration(GetToken(globalConfiguration, envToken, reply).token)
  /\ coreLast' =
       [op |-> "InitFromEnv", before |-> globalConfiguration,
        env |-> envToken,
        acquired |-> GetToken(globalConfiguration, envToken, reply).acquired,
        result |-> GetToken(globalConfiguration, envToken, reply).token]
  /\ UNCHANGED envToken
  /\ UNCHANGED <<doVars, copyVars, cpVars, frontVars, sideVars>>

\* a caller asks GetToken for the token
GetTokenCalled(reply) ==
  /\ globalConfiguration' =
       GetToken(globalConfiguration, envToken, reply).after
  /\ coreLast' =
       [op |-> "GetToken", before |-> globalConfiguration, env |-> envToken,
        acquired |-> GetToken(globalConfiguration, envToken, reply).acquired,
        result |-> GetToken(globalConfiguration, envToken, reply).token]
  /\ UNCHANGED <<envToken, inits>>
  /\ UNCHANGED <<doVars, copyVars, cpVars, frontVars, sideVars>>

\* check_setup_test.go:46  a caller fetches a token from Keycloak directly
FetchKeycloakTokenCalled(reply) ==
  /\ globalConfiguration' =
       FetchKeycloakToken(globalConfiguration, reply).after
  /\ coreLast' =
       [op |-> "FetchKeycloakToken", before |-> globalConfiguration,
        env |-> envToken,
        acquired |-> FetchKeycloakToken(globalConfiguration, reply).token,
        result |-> FetchKeycloakToken(globalConfiguration, reply).token]
  /\ UNCHANGED <<envToken, inits>>
  /\ UNCHANGED <<doVars, copyVars, cpVars, frontVars, sideVars>>

\* a process that has not called InitFromEnv yet, in any environment
InitCore ==
  /\ NoClientInUse
  /\ CopyIdle /\ ControlPlaneIdle /\ FrontIdle /\ SideIdle
  /\ globalConfiguration = NilConfiguration
  /\ envToken \in {NoToken, StaticToken}
  /\ inits = 0
  /\ coreLast = NoCoreCall

NextCore ==
  \/ \E tok \in {NoToken, StaticToken} : SetEnv(tok)
  \/ \E reply \in TokenReplies : InitFromEnv(reply)
  \/ \E reply \in TokenReplies : GetTokenCalled(reply)
  \/ \E reply \in TokenReplies : FetchKeycloakTokenCalled(reply)

SpecCore == InitCore /\ [][NextCore]_vars

(***************************************************************************)
(* NewClient and GetConfig: Configuration values and where they live.      *)
(***************************************************************************)
\* the Configuration values a caller may write
ConfigValues ==
  [Token : {NoToken, StaticToken} \cup IssuedTokens,
   BaseURL : {"https://a.hyperfluid.cloud", "https://b.hyperfluid.cloud"}]

\* variant: the Client keeping a reference to the caller's Configuration
ClientConfigPlaceShared(argument) == argument

\* client.go:15, 22-24  cfg := config; &Client{config: cfg}: the Client's
\* config field is a Configuration value of its own
ClientConfigPlace(argument) == "client"

\* client.go:112-114  GetConfig returns c.config by value
GetConfigPlace(field) == "snapshot"

\* client.go:20-30  NewClient(config)
NewClient ==
  /\ clientAt = NoPlace
  /\ clientAt' = ClientConfigPlace("caller")
  /\ mem' = [mem EXCEPT ![ClientConfigPlace("caller")] = mem["caller"]]
  /\ kept' = [kept EXCEPT !["client"] = mem["caller"]]
  /\ UNCHANGED snapAt
  /\ UNCHANGED <<doVars, coreVars, cpVars, frontVars, sideVars>>

\* the caller assigns to the Configuration variable it passed to NewClient
CallerEdits(v) ==
  /\ v # mem["caller"]
  /\ mem' = [mem EXCEPT !["caller"] = v]
  /\ kept' = [kept EXCEPT !["caller"] = v]
  /\ UNCHANGED <<clientAt, snapAt>>
  /\ UNCHANGED <<doVars, coreVars, cpVars, frontVars, sideVars>>

\* client.go:112-114  a collaborator calls GetConfig()
GetConfig ==
  /\ clientAt # NoPlace
  /\ snapAt' = GetConfigPlace(clientAt)
  /\ mem' = [mem EXCEPT ![GetConfigPlace(clientAt)] = mem[clientAt]]
  /\ kept' = [kept EXCEPT !["snapshot"] = mem[clientAt]]
  /\ UNCHANGED clientAt
  /\ UNCHANGED <<doVars, coreVars, cpVars, frontVars, sideVars>>

\* the collaborator assigns to the value GetConfig returned
SnapshotEdits(v) ==
  /\ snapAt # NoPlace
  /\ v # mem[snapAt]
  /\ mem' = [mem EXCEPT ![snapAt] = v]
  /\ kept' = [kept EXCEPT !["snapshot"] = v]
  /\ UNCHANGED <<clientAt, snapAt>>
  /\ UNCHANGED <<doVars, coreVars, cpVars, frontVars, sideVars>>

\* auth.go:48, 58  c.config.Token = newToken
TokenRefreshed(newToken) ==
  /\ clientAt # NoPlace
  /\ mem' = [mem EXCEPT ![clientAt].Token = newToken]
  /\ kept' = [kept EXCEPT !["client"].Token = newToken]
  /\ UNCHANGED <<clientAt, snapAt>>
  /\ UNCHANGED <<doVars, coreVars, cpVars, frontVars, sideVars>>

\* a caller holding any Configuration value, no Client constructed yet
InitCopy ==
  /\ NoClientInUse
  /\ CoreIdle /\ ControlPlaneIdle /\ FrontIdle /\ SideIdle
  /\ \E v \in ConfigValues :
       /\ mem = [s \in Places |-> IF s = "caller" THEN v ELSE Unset]
       /\ kept = [s \in Places |-> IF s = "caller" THEN v ELSE Unset]
  /\ clientAt = NoPlace
  /\ snapAt = NoPlace

NextCopy ==
  \/ NewClient
  \/ \E v \in ConfigValues : CallerEdits(v)
  \/ GetConfig
  \/ \E v \in ConfigValues : SnapshotEdits(v)
  \/ \E t \in IssuedTokens : TokenRefreshed(t)

SpecCopy == InitCopy /\ [][NextCopy]_vars

(***************************************************************************)
(* Client.ControlPlane and ControlPlaneClient.Close, control_plane.go      *)
(***************************************************************************)
\* ControlPlaneClients created in one run
MaxInstances == 3

\* a control-plane URL the generated client does not accept
UnusableURL == "cp"

\* control_plane.go:77-87, 117-123  newControlPlaneClient finds what it
\* needs, and NewClientWithResponses accepts the URL
CanCreate(c, url) ==
  /\ url # ""
  /\ ~(c.KeycloakClientID = "" \/ c.KeycloakClientSecret = "")
  /\ ~(c.KeycloakBaseURL = "" \/ c.KeycloakRealm = "")
  /\ url # UnusableURL

\* control_plane.go:51  cp, ok := controlPlaneClients[c]
CacheHit(entry) == entry # NoInstance

\* variant: the check under the write lock left out
DoubleCheckSkipped(entry) == FALSE

\* control_plane.go:62  the check repeated under the write lock
DoubleCheckHit(entry) == entry # NoInstance

\* variant: Close empties the cache
deleteEveryEntry(cache, cp) == [o \in Owners |-> NoInstance]

\* control_plane.go:139-144  the entry whose value is cp is deleted
deleteCached(cache, cp) ==
  [o \in Owners |-> IF cache[o] = cp THEN NoInstance ELSE cache[o]]

\* control_plane.go:50  ControlPlane() is called on a Client:
\* controlPlaneMu.RLock()
CPRLock(p, owner) ==
  /\ cpPc[p] = "idle"
  /\ cpWriter = NoHolder
  /\ cpOn' = [cpOn EXCEPT ![p] = owner]
  /\ cpReaders' = cpReaders \cup {p}
  /\ cpPc' = [cpPc EXCEPT ![p] = "rcheck"]
  /\ UNCHANGED <<controlPlaneURL, controlPlaneClients, cpWriter, cpRet,
                 cpCreated, cpClosed>>
  /\ UNCHANGED <<doVars, coreVars, copyVars, frontVars, sideVars>>

\* control_plane.go:51-55  the cache is read and the read lock released
CPReadCheck(p) ==
  /\ cpPc[p] = "rcheck"
  /\ cpReaders' = cpReaders \ {p}
  /\ IF CacheHit(controlPlaneClients[cpOn[p]])
       THEN /\ cpRet' = [cpRet EXCEPT ![p] = controlPlaneClients[cpOn[p]]]
            /\ cpPc' = [cpPc EXCEPT ![p] = "done"]
       ELSE /\ cpRet' = cpRet
            /\ cpPc' = [cpPc EXCEPT ![p] = "wlock"]
  /\ UNCHANGED <<controlPlaneURL, controlPlaneClients, cpOn, cpWriter,
                 cpCreated, cpClosed>>
  /\ UNCHANGED <<doVars, coreVars, copyVars, frontVars, sideVars>>

\* control_plane.go:58  controlPlaneMu.Lock()
CPLock(p) ==
  /\ cpPc[p] = "wlock"
  /\ cpWriter = NoHolder
  /\ cpReaders = {}
  /\ cpWriter' = p
  /\ cpPc' = [cpPc EXCEPT ![p] = "wcheck"]
  /\ UNCHANGED <<controlPlaneURL, controlPlaneClients, cpOn, cpReaders, cpRet,
                 cpCreated, cpClosed>>
  /\ UNCHANGED <<doVars, coreVars, copyVars, frontVars, sideVars>>

\* control_plane.go:59-72  under the write lock: the second look at the
\* cache, newControlPlaneClient, the store, the deferred Unlock
CPInitialize(p) ==
  /\ cpPc[p] = "wcheck"
  /\ cpWriter = p
  /\ IF DoubleCheckHit(controlPlaneClients[cpOn[p]])
       THEN /\ cpRet' = [cpRet EXCEPT ![p] = controlPlaneClients[cpOn[p]]]
            /\ UNCHANGED <<controlPlaneClients, cpCreated>>
       ELSE IF CanCreate(config, controlPlaneURL)
         THEN /\ Len(cpCreated) < MaxInstances
              /\ cpCreated' = Append(cpCreated, cpOn[p])
              /\ controlPlaneClients' =
                   [controlPlaneClients EXCEPT ![cpOn[p]] = Len(cpCreated) + 1]
              /\ cpRet' = [cpRet EXCEPT ![p] = Len(cpCreated) + 1]
         ELSE /\ cpRet' = [cpRet EXCEPT ![p] = NoInstance]
              /\ UNCHANGED <<controlPlaneClients, cpCreated>>
  /\ cpWriter' = NoHolder
  /\ cpPc' = [cpPc EXCEPT ![p] = "done"]
  /\ UNCHANGED <<controlPlaneURL, cpOn, cpReaders, cpClosed>>
  /\ UNCHANGED <<doVars, coreVars, copyVars, frontVars, sideVars>>

\* control_plane.go:134-145  the goroutine closes the client it was given
CPClose(p) ==
  /\ cpPc[p] = "done"
  /\ cpRet[p] # NoInstance
  /\ cpWriter = NoHolder
  /\ cpReaders = {}
  /\ controlPlaneClients' = deleteCached(controlPlaneClients, cpRet[p])
  /\ cpClosed' = cpClosed \cup {cpRet[p]}
  /\ cpRet' = [cpRet EXCEPT ![p] = NoInstance]
  /\ cpPc' = [cpPc EXCEPT ![p] = "idle"]
  /\ UNCHANGED <<controlPlaneURL, cpOn, cpReaders, cpWriter, cpCreated>>
  /\ UNCHANGED <<doVars, coreVars, copyVars, frontVars, sideVars>>

\* the goroutine lets go of what ControlPlane() returned, free to call again
CPDone(p) ==
  /\ cpPc[p] = "done"
  /\ cpRet' = [cpRet EXCEPT ![p] = NoInstance]
  /\ cpPc' = [cpPc EXCEPT ![p] = "idle"]
  /\ UNCHANGED <<controlPlaneURL, controlPlaneClients, cpOn, cpReaders,
                 cpWriter, cpCreated, cpClosed>>
  /\ UNCHANGED <<doVars, coreVars, copyVars, frontVars, sideVars>>

\* two Clients of one client-credentials configuration and control-plane
\* URL, whatever these are, the cache empty
InitControlPlane ==
  /\ config \in Configurations(0)
  /\ config.KeycloakUsername = "" /\ config.KeycloakPassword = ""
  /\ token = NoToken
  /\ Idle
  /\ CoreIdle /\ CopyIdle /\ FrontIdle /\ SideIdle
  /\ controlPlaneURL \in {"", "https://cp.hyperfluid.cloud", UnusableURL}
  /\ controlPlaneClients = [o \in Owners |-> NoInstance]
  /\ cpOn = [p \in Callers |-> "client"]
  /\ cpReaders = {}
  /\ cpWriter = NoHolder
  /\ cpPc = [p \in Callers |-> "idle"]
  /\ cpRet = [p \in Callers |-> NoInstance]
  /\ cpCreated = <<>>
  /\ cpClosed = {}

NextControlPlane ==
  \E p \in Callers :
    \/ \E owner \in Owners : CPRLock(p, owner)
    \/ CPReadCheck(p)
    \/ CPLock(p)
    \/ CPInitialize(p)
    \/ CPClose(p)
    \/ CPDone(p)

SpecControlPlane == InitControlPlane /\ [][NextControlPlane]_vars

(***************************************************************************)
(* The status of one response, request.go:59-96.                           *)
(***************************************************************************)
\* the status codes explored
MinStatusCode == 100
MaxStatusCode == 600

\* request.go:59-96  what do does with a response of status code: parse its
\* body ("success"), refresh or return Authentication-Failed
\* ("unauthorized"), return a terminal error ("forbidden", "notfound",
\* "client"), or continue with the next attempt ("retry")
HandlingOf(code) ==
  IF ~IsErrorStatus(code) THEN "success" ELSE StatusBranch(code)

\* httpClient.Do returns a response whose status is code
Respond(code) ==
  /\ stCode' = code
  /\ stHandling' = HandlingOf(code)
  /\ UNCHANGED <<doVars, coreVars, copyVars, cpVars>>
  /\ UNCHANGED <<qb, qbLast, qbRet, bifrostRequest, handled, sideVars>>

InitStatus ==
  /\ NoClientInUse
  /\ CoreIdle /\ CopyIdle /\ ControlPlaneIdle /\ FrontIdle /\ SideIdle

NextStatus == \E code \in MinStatusCode..MaxStatusCode : Respond(code)

SpecStatus == InitStatus /\ [][NextStatus]_vars

(***************************************************************************)
(* The query builder, query_builder.go (and builders/fluent/query.go).     *)
(***************************************************************************)
\* errors, order clauses and filters one builder accumulates, all together
MaxAccumulated == 2

\* a direction is the sequence of its characters
ASC == <<"A", "S", "C">>
DESC == <<"D", "E", "S", "C">>

\* variant: the direction compared as it was given
ToUpperSkipped(str) == str

\* strings.ToUpper, character by character
ToUpper(str) ==
  [k \in 1..Len(str) |->
     CASE str[k] = "a" -> "A" [] str[k] = "s" -> "S" [] str[k] = "c" -> "C"
       [] str[k] = "d" -> "D" [] str[k] = "e" -> "E" [] str[k] = "u" -> "U"
       [] str[k] = "p" -> "P" [] OTHER -> str[k]]

\* strings.Join(parts, sep), as the sequence of its fragments
RECURSIVE Join(_, _)
Join(parts, sep) ==
  IF Len(parts) <= 1 THEN parts
  ELSE <<Head(parts), sep>> \o Join(Tail(parts), sep)

\* qb.errors = append(qb.errors, fmt.Errorf(msg))
Record(b, msg) == [b EXCEPT !.errors = Append(@, msg)]

\* query_builder.go:58-64
Org(b, orgID) ==
  [(IF orgID = "" THEN Record(b, "organization ID cannot be empty") ELSE b)
     EXCEPT !.orgID = orgID]

\* variant: a valid catalog name withdraws the errors recorded so far
CatalogClearingErrors(b, name) ==
  [(IF name = "" THEN Record(b, "catalog name cannot be empty")
                 ELSE [b EXCEPT !.errors = <<>>])
     EXCEPT !.catalogName = name]

\* query_builder.go:67-73
Catalog(b, name) ==
  [(IF name = "" THEN Record(b, "catalog name cannot be empty") ELSE b)
     EXCEPT !.catalogName = name]

\* query_builder.go:76-82
Schema(b, name) ==
  [(IF name = "" THEN Record(b, "schema name cannot be empty") ELSE b)
     EXCEPT !.schemaName = name]

\* query_builder.go:85-91
Table(b, name) ==
  [(IF name = "" THEN Record(b, "table name cannot be empty") ELSE b)
     EXCEPT !.tableName = name]

\* query_builder.go:102-118  the filter is appended whatever the operator
Where(b, column, operator) ==
  [(IF operator \notin {"=", ">", "<", ">=", "<=", "!=", "LIKE", "IN"}
      THEN Record(b, "invalid operator")
      ELSE b)
     EXCEPT !.filters =
       Append(@, [Column |-> column, Operator |-> operator, Value |-> "v"])]

\* query_builder.go:122-138
OrderBy(b, column, direction) ==
  LET given == IF direction = <<>> THEN ASC ELSE direction
  IN  IF ToUpper(given) # ASC /\ ToUpper(given) # DESC
        THEN Record(b, "invalid order direction")
        ELSE [b EXCEPT !.orderBy =
                Append(@, [Column |-> column, Direction |-> ToUpper(given)])]

\* query_builder.go:95-98
Select(b, columns) == [b EXCEPT !.selectCols = @ \o columns]

\* query_builder.go:162-169  params: <<key, value>> pairs
RawParams(b, params) == [b EXCEPT !.rawParams = @ \o params]

\* query_builder.go:141-148
Limit(b, n) ==
  IF n < 0 THEN Record(b, "limit cannot be negative")
           ELSE [b EXCEPT !.limitVal = n]

\* query_builder.go:151-158
Offset(b, n) ==
  IF n < 0 THEN Record(b, "offset cannot be negative")
           ELSE [b EXCEPT !.offsetVal = n]

\* variant: validate checks the required fields only
validateFieldsOnly(b) ==
  IF b.orgID = "" \/ b.catalogName = "" \/ b.schemaName = ""
     \/ b.tableName = ""
    THEN Sentinel(ErrInvalidRequest)
    ELSE NilErr

\* query_builder.go:171-197
validate(b) ==
  IF Len(b.errors) > 0
    THEN Err("query builder validation failed", "nil",
             <<"query builder validation failed: ">> \o Join(b.errors, "; "))
  ELSE IF b.orgID = ""
    THEN Err(ErrInvalidRequest, "nil",
             <<ErrInvalidRequest, ": organization ID is required">>)
  ELSE IF b.catalogName = ""
    THEN Err(ErrInvalidRequest, "nil",
             <<ErrInvalidRequest, ": catalog name is required">>)
  ELSE IF b.schemaName = ""
    THEN Err(ErrInvalidRequest, "nil",
             <<ErrInvalidRequest, ": schema name is required">>)
  ELSE IF b.tableName = ""
    THEN Err(ErrInvalidRequest, "nil",
             <<ErrInvalidRequest, ": table name is required">>)
  ELSE NilErr

\* query_builder.go:236-247  the value of the order parameter
RECURSIVE OrderValue(_)
OrderValue(clauses) ==
  IF clauses = <<>> THEN <<>>
  ELSE <<Head(clauses).Column,
         IF Head(clauses).Direction = DESC THEN ".desc" ELSE ".asc">>
       \o (IF Len(clauses) > 1 THEN <<",">> ELSE <<>>)
       \o OrderValue(Tail(clauses))

\* query_builder.go:216-221  the raw parameters, each a <<key, value>> pair,
\* that no later params.Set replaces
RawKept(b) ==
  SelectSeq(b.rawParams,
            LAMBDA kv : /\ kv[1] = "select" => Len(b.selectCols) = 0
                        /\ kv[1] = "order" => Len(b.orderBy) = 0
                        /\ kv[1] = "_limit" => ~(b.limitVal > 0)
                        /\ kv[1] = "_offset" => ~(b.offsetVal > 0))

\* query_builder.go:213-260  buildParams: an absent parameter is empty
buildParams(b) ==
  [raw |-> RawKept(b),
   select |-> Join(b.selectCols, ","),
   filters |->
     [k \in 1..Len(b.filters) |->
        [name |-> <<b.filters[k].Column, "[", b.filters[k].Operator, "]">>,
         value |-> b.filters[k].Value]],
   order |-> OrderValue(b.orderBy),
   limit |-> IF b.limitVal > 0 THEN ToString(b.limitVal) ELSE "",
   offset |-> IF b.offsetVal > 0 THEN ToString(b.offsetVal) ELSE "",
   count |-> ""]

\* a builder method is called on the builder and leaves it as after
Chained(after, method, name, direction, n) ==
  /\ qbRet = NoTerminal
  /\ Len(after.errors) + Len(after.orderBy) + Len(after.filters)
       <= MaxAccumulated
  /\ qb' = after
  /\ qbLast' = [method |-> method, name |-> name, direction |-> direction,
                n |-> n]
  /\ UNCHANGED qbRet
  /\ UNCHANGED <<doVars, coreVars, copyVars, cpVars>>
  /\ UNCHANGED <<stCode, stHandling, bifrostRequest, handled, sideVars>>

\* query_builder.go:264-360  Get, Count, Post, Put or Delete: validate, and
\* only then build the request and hand it to client.do, whose result (here
\* a success) is returned; Post sends no parameters, Count adds its own
Execute(op) ==
  /\ qbRet = NoTerminal
  /\ qbRet' =
       IF validate(qb) # NilErr
         THEN [op |-> op, err |-> validate(qb), sent |-> FALSE,
               params |-> NoParams]
         ELSE [op |-> op, err |-> NilErr, sent |-> TRUE,
               params |->
                 IF op = "Post" THEN NoParams
                 ELSE IF op = "Count"
                   THEN [buildParams(qb) EXCEPT !.count = "exact",
                                                !.limit = "0"]
                 ELSE buildParams(qb)]
  /\ qbLast' = [method |-> op, name |-> "", direction |-> <<>>, n |-> 0]
  /\ UNCHANGED qb
  /\ UNCHANGED <<doVars, coreVars, copyVars, cpVars>>
  /\ UNCHANGED <<stCode, stHandling, bifrostRequest, handled, sideVars>>

\* client.Query() on a client whose configuration has an OrgID or none
InitBuilder ==
  /\ NoClientInUse
  /\ CoreIdle /\ CopyIdle /\ ControlPlaneIdle
  /\ stCode = 0 /\ stHandling = "none"
  /\ bifrostRequest = NoRequest /\ handled = NotHandled
  /\ SideIdle
  /\ qb \in {newQueryBuilder(orgID) : orgID \in {"", "org"}}
  /\ qbLast = NoCall
  /\ qbRet = NoTerminal

\* any chain of builder calls, with empty and set names, a valid and an
\* invalid operator, directions in several spellings, and sizes of either
\* sign, ended by one terminal operation
NextBuilder ==
  \/ \E name \in {"", "n"} : Chained(Org(qb, name), "Org", name, <<>>, 0)
  \/ \E name \in {"", "n"} :
       Chained(Catalog(qb, name), "Catalog", name, <<>>, 0)
  \/ \E name \in {"", "n"} :
       Chained(Schema(qb, name), "Schema", name, <<>>, 0)
  \/ \E name \in {"", "n"} :
       Chained(Table(qb, name), "Table", name, <<>>, 0)
  \/ \E operator \in {"=", "~"} :
       Chained(Where(qb, "a", operator), "Where", operator, <<>>, 0)
  \/ \E column \in {"a", "b"},
        direction \in {<<>>, <<"a", "s", "c">>, <<"D", "e", "s", "c">>,
                       <<"u", "p">>} :
       Chained(OrderBy(qb, column, direction), "OrderBy", column, direction, 0)
  \/ \E n \in {-1, 5} : Chained(Limit(qb, n), "Limit", "", <<>>, n)
  \/ \E n \in {-1, 5} : Chained(Offset(qb, n), "Offset", "", <<>>, n)
  \/ \E op \in {"Get", "Count", "Post", "Put", "Delete"} : Execute(op)

SpecBuilder == InitBuilder /\ [][NextBuilder]_vars

(***************************************************************************)
(* Package core: HandleRequest, part_001:19-51.                            *)
(***************************************************************************)
\* a configuration InitFromEnv left, with HYPERFLUID_ORG_ID set or not
RequestConfiguration(org) ==
  [isNil |-> FALSE, Token |-> StaticToken, OrgID |-> org]

\* the requests a caller may pass: a type of the three or another, and each
\* payload nil, with its required field empty, or with it set
Requests ==
  [Type : {"RequestGraphQL", "RequestOpenAPI", "RequestPostgres", "invalid"},
   GraphQLPayload : {NilPayload} \cup [isNil : {FALSE}, required : {"", "x"}],
   OpenAPIPayload : {NilPayload} \cup [isNil : {FALSE}, required : {"", "x"}],
   PostgresPayload : {NilPayload} \cup [isNil : {FALSE}, required : {"", "x"}]]

\* utils.ResponseError(msg): an error envelope and the error
ResponseError(msg) ==
  [resp |-> [Status |-> StatusError, Data |-> "", Error |-> msg,
             HTTPCode |-> 0],
   err |-> Err(msg, "nil", <<msg>>), executor |-> "none"]

\* variant: only a nil payload is refused
PayloadNil(payload) == payload.isNil

\* part_001:31, 37, 43  payload == nil || payload.Query (Catalog, SQL) == ""
PayloadMissing(payload) == payload.isNil \/ payload.required = ""

\* part_001:29-50  the switch: the executor called with its result, or the
\* error returned without calling one
Dispatch(payload, executor, result) ==
  IF PayloadMissing(payload)
    THEN [resp |-> NilResp, err |-> Sentinel("ErrorInvalidRequest"),
          executor |-> "none"]
    ELSE [resp |-> result.resp, err |-> result.err, executor |-> executor]

\* part_001:19-51  HandleRequest; result is what the executor, if called,
\* gets from the network or the database
HandleRequest(cfg, req, result) ==
  IF cfg.isNil
    THEN [resp |-> NilResp, err |-> Sentinel("ErrorUninitialized"),
          executor |-> "none"]
  ELSE IF cfg.OrgID = ""
    THEN ResponseError("missing organization ID (HYPERFLUID_ORG_ID)")
  ELSE IF req.Type = "RequestGraphQL"
    THEN Dispatch(req.GraphQLPayload, "executeGraphQLRequest", result)
  ELSE IF req.Type = "RequestOpenAPI"
    THEN Dispatch(req.OpenAPIPayload, "executeOpenAPIRequest", result)
  ELSE IF req.Type = "RequestPostgres"
    THEN Dispatch(req.PostgresPayload, "executePostgresRequest", result)
  ELSE [resp |-> NilResp, err |-> Sentinel("ErrorUnsupportedRequestType"),
        executor |-> "none"]

\* receive operations the caller makes on the channel
MaxReceives == 2

\* variant: an unbuffered channel, make(chan Result), has no room at all
ResultChanUnbuffered == Len(<<>>)

\* bifrost.go:33  make(chan Result, 1)
ResultChanCapacity == 1

\* what a receive from the closed and empty channel yields: the zero Result
ZeroResult == [Response |-> NilResp, Error |-> NilErr, ok |-> FALSE]

\* bifrost.go:32-34, 39  Request(req) makes the channel, starts the goroutine
\* and returns the channel
RequestCalled(req) ==
  /\ requestPc = "none"
  /\ bifrostRequest' = req
  /\ resultChan' = [buf |-> <<>>, closed |-> FALSE]
  /\ requestPc' = "handle"
  /\ UNCHANGED <<handled, received>>
  /\ UNCHANGED <<doVars, coreVars, copyVars, cpVars>>
  /\ UNCHANGED <<stCode, stHandling, qb, qbLast, qbRet, clients, tq, tqRet>>

\* bifrost.go:35  the goroutine runs core.HandleRequest(bifrostRequest)
HandleRequestCalled(result) ==
  /\ requestPc = "handle"
  /\ handled' = HandleRequest(globalConfiguration, bifrostRequest, result)
  /\ requestPc' = "send"
  /\ UNCHANGED <<bifrostRequest, resultChan, received>>
  /\ UNCHANGED <<doVars, coreVars, copyVars, cpVars>>
  /\ UNCHANGED <<stCode, stHandling, qb, qbLast, qbRet, clients, tq, tqRet>>

\* bifrost.go:36  resultChan <- Result{Response: response, Error: err}: the
\* send goes through when the buffer has room
SendResult ==
  /\ requestPc = "send"
  /\ Len(resultChan.buf) < ResultChanCapacity
  /\ resultChan' =
       [resultChan EXCEPT
          !.buf = Append(@, [Response |-> handled.resp, Error |-> handled.err,
                             ok |-> TRUE])]
  /\ requestPc' = "close"
  /\ UNCHANGED <<bifrostRequest, handled, received>>
  /\ UNCHANGED <<doVars, coreVars, copyVars, cpVars>>
  /\ UNCHANGED <<stCode, stHandling, qb, qbLast, qbRet, clients, tq, tqRet>>

\* bifrost.go:37  close(resultChan), and the goroutine ends
CloseResultChan ==
  /\ requestPc = "close"
  /\ resultChan' = [resultChan EXCEPT !.closed = TRUE]
  /\ requestPc' = "exited"
  /\ UNCHANGED <<bifrostRequest, handled, received>>
  /\ UNCHANGED <<doVars, coreVars, copyVars, cpVars>>
  /\ UNCHANGED <<stCode, stHandling, qb, qbLast, qbRet, clients, tq, tqRet>>

\* unit_test.go:39  the caller receives from the channel: the buffered Result
\* or, from the closed and empty channel, the zero Result; it waits otherwise
Receive ==
  /\ requestPc # "none"
  /\ Len(received) < MaxReceives
  /\ resultChan.buf # <<>> \/ resultChan.closed
  /\ IF resultChan.buf # <<>>
       THEN /\ received' = Append(received, Head(resultChan.buf))
            /\ resultChan' = [resultChan EXCEPT !.buf = Tail(@)]
       ELSE /\ received' = Append(received, ZeroResult)
            /\ resultChan' = resultChan
  /\ UNCHANGED <<bifrostRequest, handled, requestPc>>
  /\ UNCHANGED <<doVars, coreVars, copyVars, cpVars>>
  /\ UNCHANGED <<stCode, stHandling, qb, qbLast, qbRet, clients, tq, tqRet>>

\* the process before or after InitFromEnv
InitRequest ==
  /\ NoClientInUse
  /\ CopyIdle /\ ControlPlaneIdle /\ FrontIdle /\ SideIdle
  /\ globalConfiguration \in
       {NilConfiguration, RequestConfiguration(""), RequestConfiguration("org")}
  /\ envToken = NoToken
  /\ inits = 0
  /\ coreLast = NoCoreCall

\* one Request call, with any request and any result of its executor, and a
\* caller that receives when it likes, or never
NextRequest ==
  \/ \E req \in Requests : RequestCalled(req)
  \/ \E result \in {[resp |-> OkEnvelope(Reply(200, GoodJson)), err |-> NilErr],
                      ResponseError("PostgreSQL ping failed")} :
       HandleRequestCalled([resp |-> result.resp, err |-> result.err])
  \/ SendResult
  \/ CloseResultChan
  \/ Receive

SpecRequest == InitRequest /\ [][NextRequest]_vars

(***************************************************************************)
(* refreshToken on two unrelated Clients of one process, auth.go:17-137.   *)
(***************************************************************************)
\* a base URL that url.Parse rejects: it has no scheme
SchemelessURL == "://keycloak"

\* auth.go:94-102  http.NewRequestWithContext accepts the token endpoint's URL
TokenRequestBuilt(c) == c.KeycloakBaseURL # SchemelessURL

\* auth.go:89-137  exchangeKeycloakToken against a token endpoint that would
\* answer reply: without base URL or realm, or with a URL that cannot be
\* parsed, it returns before any round trip
exchangeKeycloakToken(c, grant, reply) ==
  IF ~EndpointConfigured(c)
    THEN [grant |-> grant, sent |-> FALSE, reply |-> TokenTransportError,
          token |-> "",
          err |-> Err(ErrInvalidConfiguration, "nil",
                      <<ErrInvalidConfiguration,
                        ": Keycloak base URL or realm not configured">>)]
  ELSE IF ~TokenRequestBuilt(c)
    THEN [grant |-> grant, sent |-> FALSE, reply |-> TokenTransportError,
          token |-> "",
          err |-> Err(ErrInvalidRequest, "url",
                      <<ErrInvalidRequest, ": cannot create Keycloak request: ",
                        "url">>)]
  ELSE [grant |-> grant, sent |-> TRUE, reply |-> reply,
        token |-> ExchangeResult(reply).token,
        err |-> ExchangeResult(reply).err]

\* request.go:68  a goroutine calls refreshToken on Client c and reaches
\* authMutex.Lock()
RefreshTokenCalled(c) ==
  /\ clients[c].pc = "idle"
  /\ clients' = [clients EXCEPT ![c].pc = "lock",
                                ![c].exchanged = NoExchange,
                                ![c].ret = NoRefresh]
  /\ UNCHANGED <<authMutex, ownVars, coreVars, copyVars, cpVars, frontVars>>
  /\ UNCHANGED <<tq, tqRet, requestPc, resultChan, received>>

\* auth.go:34-45, 55, 64  authMutex.Lock() returns: the first grant
\* configured is turned to, or refreshToken returns for want of one
RefreshTokenLocked(c) ==
  /\ clients[c].pc = "lock"
  /\ LockFree(authMutex)
  /\ IF hasKeycloakClientCredentials(clients[c].config)
       THEN /\ authMutex' = c
            /\ clients' = [clients EXCEPT ![c].pc = "exchangeCC"]
       ELSE IF hasKeycloakPasswordGrantCredentials(clients[c].config)
         THEN /\ authMutex' = c
              /\ clients' = [clients EXCEPT ![c].pc = "exchangePW"]
         ELSE /\ authMutex' = authMutex
              /\ clients' =
                   [clients EXCEPT
                      ![c].pc = "idle",
                      ![c].ret = [token |-> "",
                                  err |-> Sentinel(ErrInvalidConfiguration)]]
  /\ UNCHANGED <<ownVars, coreVars, copyVars, cpVars, frontVars>>
  /\ UNCHANGED <<tq, tqRet, requestPc, resultChan, received>>

\* auth.go:46-64  the exchange of the grant at hand returns: the token is
\* stored, or the password grant is turned to, or refreshToken returns its
\* error; the deferred Unlock runs at every return
ExchangeReturned(c, reply) ==
  LET client == clients[c]
      grant == IF client.pc = "exchangeCC" THEN "cc" ELSE "pw"
      x == exchangeKeycloakToken(client.config, grant, reply)
  IN  /\ client.pc \in {"exchangeCC", "exchangePW"}
      /\ authMutex = c
      /\ IF x.err = NilErr
           THEN /\ clients' =
                     [clients EXCEPT
                        ![c].pc = "idle", ![c].exchanged = x,
                        ![c].token = x.token,
                        ![c].ret = [token |-> x.token, err |-> NilErr]]
                /\ authMutex' = NoHolder
           ELSE IF grant = "cc"
                   /\ hasKeycloakPasswordGrantCredentials(client.config)
             THEN /\ clients' = [clients EXCEPT ![c].pc = "exchangePW",
                                                ![c].exchanged = x]
                  /\ authMutex' = authMutex
             ELSE /\ clients' =
                       [clients EXCEPT
                          ![c].pc = "idle", ![c].exchanged = x,
                          ![c].ret =
                            [token |-> "",
                             err |->
                               IF grant = "pw"
                                 THEN Err(ErrAuthenticationFailed, x.err.kind,
                                          <<ErrAuthenticationFailed,
                                            ": password grant failed: ",
                                            x.err.kind>>)
                                 ELSE Sentinel(ErrInvalidConfiguration)]]
                  /\ authMutex' = NoHolder
      /\ UNCHANGED <<ownVars, coreVars, copyVars, cpVars, frontVars>>
      /\ UNCHANGED <<tq, tqRet, requestPc, resultChan, received>>

\* the configurations of a Client do may call refreshToken on: a token
\* endpoint that is configured, lacks its base URL or its realm, or has a URL
\* without scheme, and client credentials, a password grant, or both
RefreshConfigurations ==
  { [KeycloakBaseURL |-> endpoint[1], KeycloakRealm |-> endpoint[2],
     KeycloakClientID |-> "client", KeycloakClientSecret |-> secret,
     KeycloakUsername |-> user, KeycloakPassword |-> user] :
      endpoint \in {<<"https://keycloak", "realm">>, <<"", "realm">>,
                    <<"https://keycloak", "">>, <<SchemelessURL, "realm">>},
      secret \in {"", "secret"}, user \in {"", "demo"} }

\* two Clients built by NewClient from configurations of their own, each
\* with a token
InitClients ==
  /\ NoClientInUse
  /\ CoreIdle /\ CopyIdle /\ ControlPlaneIdle /\ FrontIdle
  /\ clients \in [ClientIDs -> [config : RefreshConfigurations,
                                token : {StaticToken}, pc : {"idle"},
                                exchanged : {NoExchange}, ret : {NoRefresh}]]
  /\ \A c \in ClientIDs : isKeycloakAuthMethodConfigured(clients[c].config)
  /\ tq = NoTableQueryBuilder
  /\ tqRet = [sent |-> FALSE, params |-> NoParams]
  /\ requestPc = "none"
  /\ resultChan = [buf |-> <<>>, closed |-> FALSE]
  /\ received = <<>>

NextClients ==
  \E c \in ClientIDs :
    \/ RefreshTokenCalled(c)
    \/ RefreshTokenLocked(c)
    \/ \E reply \in TokenReplies \cup {TokenReply(201, TokenJson("tokA").body)} :
         ExchangeReturned(c, reply)

SpecClients == InitClients /\ [][NextClients]_vars

(***************************************************************************)
(* builders/progressive: the TableQueryBuilder, part_006 (and              *)
(* progressive_builders.go:394-507), beside the QueryBuilder.              *)
(***************************************************************************)
\* Select, Where, OrderBy and RawParams calls made on one builder
MaxCalls == 3

\* schema.go:25-38  SchemaBuilder.Table(tableName)
NewTableQueryBuilder == NoTableQueryBuilder

\* part_006:36-39
TableSelect(t, columns) == [t EXCEPT !.selectCols = @ \o columns]

\* part_006:41-48  no operator is refused
TableWhere(t, column, operator) ==
  [t EXCEPT !.filters =
     Append(@, [Column |-> column, Operator |-> operator, Value |-> "v"])]

\* part_006:50-59  the direction is kept as it was given
TableOrderBy(t, column, direction) ==
  [t EXCEPT !.orderBy =
     Append(@, [Column |-> column,
                Direction |-> IF direction = <<>> THEN ASC ELSE direction])]

\* part_006:61-69
TableLimit(t, n) == [t EXCEPT !.limitVal = n]
TableOffset(t, n) == [t EXCEPT !.offsetVal = n]

\* part_006:71-78
TableRawParams(t, params) == [t EXCEPT !.rawParams = @ \o params]

\* fmt.Sprintf("%s", parts) of a []string: the elements between brackets,
\* separated by spaces; parts: the fragments of each element
RECURSIVE Spaced(_)
Spaced(parts) ==
  IF parts = <<>> THEN <<>>
  ELSE Head(parts) \o (IF Len(parts) > 1 THEN <<" ">> ELSE <<>>)
       \o Spaced(Tail(parts))

Sprint(parts) == <<"[">> \o Spaced(parts) \o <<"]">>

\* part_006:104-149  buildParams of the TableQueryBuilder
TableBuildParams(t) ==
  [raw |-> RawKept(t),
   select |-> IF Len(t.selectCols) > 0
                THEN Sprint([k \in 1..Len(t.selectCols) |-> <<t.selectCols[k]>>])
                ELSE <<>>,
   filters |->
     [k \in 1..Len(t.filters) |->
        [name |-> <<t.filters[k].Column, "[", t.filters[k].Operator, "]">>,
         value |-> t.filters[k].Value]],
   order |-> IF Len(t.orderBy) > 0
               THEN Sprint([k \in 1..Len(t.orderBy) |->
                              <<t.orderBy[k].Column,
                                IF t.orderBy[k].Direction = DESC
                                  THEN ".desc" ELSE ".asc">>])
               ELSE <<>>,
   limit |-> IF t.limitVal > 0 THEN ToString(t.limitVal) ELSE "",
   offset |-> IF t.offsetVal > 0 THEN ToString(t.offsetVal) ELSE "",
   count |-> ""]

\* one call made on the QueryBuilder and on the TableQueryBuilder alike
BothCalled(fluentAfter, tableAfter) ==
  /\ qbRet = NoTerminal
  /\ Len(tableAfter.selectCols) + Len(tableAfter.filters)
       + Len(tableAfter.orderBy) + Len(tableAfter.rawParams) <= MaxCalls
  /\ qb' = fluentAfter
  /\ tq' = tableAfter
  /\ UNCHANGED <<qbLast, qbRet, tqRet>>
  /\ UNCHANGED <<doVars, coreVars, copyVars, cpVars>>
  /\ UNCHANGED <<stCode, stHandling, bifrostRequest, handled>>
  /\ UNCHANGED <<clients, requestPc, resultChan, received>>

\* query_builder.go:264-283 and part_006:82-101  Get on either builder: the
\* parameters each hands to the client with its request
BothGet ==
  /\ qbRet = NoTerminal
  /\ qbRet' =
       IF validate(qb) # NilErr
         THEN [op |-> "Get", err |-> validate(qb), sent |-> FALSE,
               params |-> NoParams]
         ELSE [op |-> "Get", err |-> NilErr, sent |-> TRUE,
               params |-> buildParams(qb)]
  /\ tqRet' = [sent |-> TRUE, params |-> TableBuildParams(tq)]
  /\ UNCHANGED <<qb, qbLast, tq>>
  /\ UNCHANGED <<doVars, coreVars, copyVars, cpVars>>
  /\ UNCHANGED <<stCode, stHandling, bifrostRequest, handled>>
  /\ UNCHANGED <<clients, requestPc, resultChan, received>>

\* client.Query().Catalog(n).Schema(n).Table(n) and
\* client.Org(org).Catalog(n).Schema(n).Table(n), for one table
InitProgressive ==
  /\ NoClientInUse
  /\ CoreIdle /\ CopyIdle /\ ControlPlaneIdle
  /\ stCode = 0 /\ stHandling = "none"
  /\ bifrostRequest = NoRequest /\ handled = NotHandled
  /\ qb = Table(Schema(Catalog(newQueryBuilder("org"), "n"), "n"), "n")
  /\ qbLast = NoCall
  /\ qbRet = NoTerminal
  /\ clients = [c \in ClientIDs |-> NoClient]
  /\ tq = NewTableQueryBuilder
  /\ tqRet = [sent |-> FALSE, params |-> NoParams]
  /\ requestPc = "none"
  /\ resultChan = [buf |-> <<>>, closed |-> FALSE]
  /\ received = <<>>

\* any chain of calls with arguments both builders accept, ended by Get
NextProgressive ==
  \/ \E column \in {"a", "b"} :
       BothCalled(Select(qb, <<column>>), TableSelect(tq, <<column>>))
  \/ \E operator \in {"=", ">"} :
       BothCalled(Where(qb, "a", operator), TableWhere(tq, "a", operator))
  \/ \E column \in {"a", "b"},
        direction \in {<<>>, ASC, DESC, <<"d", "e", "s", "c">>} :
       BothCalled(OrderBy(qb, column, direction),
                  TableOrderBy(tq, column, direction))
  \/ \E n \in {0, 5} : BothCalled(Limit(qb, n), TableLimit(tq, n))
  \/ \E n \in {0, 5} : BothCalled(Offset(qb, n), TableOffset(tq, n))
  \/ \E params \in {<<<<"x", "1">>>>, <<<<"select", "c">>>>} :
       BothCalled(RawParams(qb, params), TableRawParams(tq, params))
  \/ BothGet

SpecProgressive == InitProgressive /\ [][NextProgressive]_vars

(***************************************************************************)
(* Properties.                                                             *)
(***************************************************************************)
AllTransient(p) ==
  \A k \in 1..Len(outcomes[p]) : outcomes[p][k] = "transient"

\* the envelope a response with status >= 300 must be reported in
EnvelopeOf(reply) ==
  [Status |-> StatusError, Data |-> "", Error |-> reply.body,
   HTTPCode |-> reply.code]

\* C1: with MaxRetries = N and a context that stays live, a call whose sends
\* all end in a transient condition (transport or read error, 3xx/5xx,
\* unparseable 2xx body) never makes more than N+1 sends, and returns after
\* exactly N+1 sends with the "max retries exceeded" error.
C1_ExhaustedAfterNPlusOneSends ==
  \A p \in Callers :
    AllTransient(p) =>
      /\ sends[p] <= config.MaxRetries + 1
      /\ (pc[p] = "done" /\ ~ctxDone[p] /\ outcomes[p] # <<>>) =>
           /\ sends[p] = config.MaxRetries + 1
           /\ ret[p].err.kind = MaxRetriesExceeded

C1_Witness ==
  \E p \in Callers :
    /\ pc[p] = "done" /\ ~ctxDone[p] /\ AllTransient(p)
    /\ config.MaxRetries = 2 /\ sends[p] = 3
    /\ lastReply[p].code = 500
    /\ ret[p].err.kind = MaxRetriesExceeded

\* C2: with an OIDC scheme configured, a call whose first send is answered
\* 401, whose refresh succeeds and whose next send is answered 200 made one
\* refresh call and two sends, sat through no backoff wait, and returns an ok
\* envelope.
C2_RefreshedRetrySkipsBackoff ==
  \A p \in Callers :
    ( /\ pc[p] = "done"
      /\ isKeycloakAuthMethodConfigured(config)
      /\ outcomes[p] = <<"401", "ok">>
      /\ refreshRet[p].err = NilErr )
    => /\ refreshCalls[p] = 1
       /\ sends[p] = 2
       /\ sleeps[p] = 0
       /\ ret[p].err = NilErr
       /\ ret[p].resp.Status = StatusOK

\* C3: when two concurrent calls on one client are both answered 401, the
\* second asking for the refresh while the first holds it, and both are then
\* answered 200, one round trip was made to the token endpoint in all and
\* both calls return ok, their last send carrying an issued token.
C3_OneExchangeForConcurrent401s ==
  ( /\ \A p \in Callers : pc[p] = "done" /\ outcomes[p] = <<"401", "ok">>
    /\ \E p \in Callers : waited[p]
    /\ ~( hasKeycloakClientCredentials(config)
          /\ hasKeycloakPasswordGrantCredentials(config) ) )
  => /\ exchanges = 1
     /\ \A p \in Callers :
          /\ ret[p].err = NilErr
          /\ ret[p].resp.Status = StatusOK
          /\ sentToken[p] \in IssuedTokens

\* C4: a send answered 403 or 404 is the call's last one: the call has
\* returned, with the error envelope of that response and ErrPermissionDenied
\* (403) or ErrNotFound (404); answered so on its first send, the call made
\* exactly one send whatever MaxRetries is.
C4_ForbiddenAndNotFoundAreTerminal ==
  \A p \in Callers :
    \A k \in 1..Len(outcomes[p]) :
      outcomes[p][k] \in {"403", "404"} =>
        /\ k = Len(outcomes[p])
        /\ sends[p] = k
        /\ pc[p] = "done"
        /\ ret[p].resp = EnvelopeOf(lastReply[p])
        /\ ret[p].err = IF outcomes[p][k] = "403"
                          THEN Sentinel(ErrPermissionDenied)
                          ELSE Sentinel(ErrNotFound)

C4_Witness ==
  \E p \in Callers :
    /\ pc[p] = "done" /\ config.MaxRetries = 2
    /\ outcomes[p] = <<"403">> /\ sends[p] = 1
    /\ ret[p].err.kind = ErrPermissionDenied

\* C5: a call whose context is cancelled while it waits in the backoff sleep
\* leaves that wait only by returning (nil, ctx.Err()): it builds and sends
\* nothing more, and does not report "max retries exceeded".
C5_CancelledBackoffReturnsCtxErr ==
  \A p \in Callers :
    cancelAt[p] = "backoff" =>
      /\ pc[p] \in {"backoff", "done"}
      /\ sends[p] = Len(outcomes[p])
      /\ pc[p] = "done" =>
           ret[p] = [resp |-> NilResp, err |-> Sentinel(CtxErr)]

C5_Witness ==
  \E p \in Callers :
    /\ cancelAt[p] = "backoff" /\ pc[p] = "done"
    /\ i[p] < config.MaxRetries
    /\ ret[p].err.kind = CtxErr

\* C6: a call whose context is cancelled while a send is in flight, that send
\* failing for it, returns the context's error and never "max retries
\* exceeded", on the last permitted attempt too.
C6_CancelledSendReturnsCtxErr ==
  \A p \in Callers :
    ( /\ pc[p] = "done"
      /\ cancelAt[p] = "send"
      /\ Last(outcomes[p]) = "cancelled" )
    => /\ ret[p].err.kind = CtxErr
       /\ ret[p].err.kind # MaxRetriesExceeded

\* C7: every return of do carries a non-nil envelope or a non-nil error; a
\* return on a terminal 4xx (401 with no successful refresh, 403, 404, other
\* 4xx) carries both, the envelope holding that response's status and body.
Terminal4xx(p) ==
  /\ outcomes[p] # <<>>
  /\ \/ Last(outcomes[p]) \in {"403", "404", "4xx"}
     \/ /\ Last(outcomes[p]) = "401"
        /\ \/ ~isKeycloakAuthMethodConfigured(config)
           \/ refreshRet[p].err # NilErr

C7_ReturnsEnvelopeOrError ==
  \A p \in Callers :
    pc[p] = "done" =>
      /\ ret[p].resp # NilResp \/ ret[p].err # NilErr
      /\ Terminal4xx(p) =>
           /\ ret[p].resp = EnvelopeOf(lastReply[p])
           /\ ret[p].err # NilErr
           /\ ret[p].err.kind \in {ErrAuthenticationFailed, ErrPermissionDenied,
                                   ErrNotFound, ErrInvalidRequest}

C7_Witness ==
  \E p \in Callers :
    /\ pc[p] = "done" /\ Terminal4xx(p)
    /\ Last(outcomes[p]) = "401"
    /\ refreshCalls[p] = 1
    /\ ret[p].resp.HTTPCode = 401 /\ ret[p].resp.Error = BadColumn
    /\ ret[p].err.kind = ErrAuthenticationFailed

\* C8 as stated: with an empty token and no OIDC credentials configured, do
\* returns ErrInvalidConfiguration, having made no send and no exchange.
C8_NoTokenIsConfigurationInvalid ==
  \A p \in Callers :
    ( /\ pc[p] = "done"
      /\ token = NoToken
      /\ ~isKeycloakAuthMethodConfigured(config) )
    => /\ ret[p].err = Sentinel(ErrInvalidConfiguration)
       /\ sends[p] = 0
       /\ exchanges = 0

\* C8 as amended: with an empty token and no OIDC credentials configured, a
\* call makes no send, no exchange, no backoff wait and no second iteration,
\* whatever MaxRetries is, and returns (nil, ErrInvalidConfiguration) when
\* its request can be built; a request http.NewRequestWithContext rejects is
\* answered (nil, ErrInvalidRequest) before the token is looked at.
C8_NoTokenFailsBeforeAnySend ==
  \A p \in Callers :
    ( token = NoToken /\ ~isKeycloakAuthMethodConfigured(config) )
    => /\ sends[p] = 0 /\ exchanges = 0 /\ sleeps[p] = 0 /\ i[p] = 0
       /\ pc[p] = "done" =>
            /\ ret[p].resp = NilResp
            /\ ret[p].err.kind = IF reqValid[p] THEN ErrInvalidConfiguration
                                                ELSE ErrInvalidRequest

C8_Witness ==
  \E p \in Callers :
    /\ pc[p] = "done" /\ reqValid[p] /\ token = NoToken
    /\ ~isKeycloakAuthMethodConfigured(config)
    /\ config.MaxRetries = 2
    /\ ret[p].err = Sentinel(ErrInvalidConfiguration)

\* C9: a send answered with a 4xx other than 401, 403 and 404 is the call's
\* last one: the call has returned the error envelope of that response with
\* an ErrInvalidRequest error whose message contains the response body;
\* answered so on its first send, the call made exactly one send.
C9_OtherClientErrorsAreTerminal ==
  \A p \in Callers :
    \A k \in 1..Len(outcomes[p]) :
      outcomes[p][k] = "4xx" =>
        /\ k = Len(outcomes[p])
        /\ sends[p] = k
        /\ pc[p] = "done"
        /\ ret[p].resp = EnvelopeOf(lastReply[p])
        /\ ret[p].err.kind = ErrInvalidRequest
        /\ MessageContains(ret[p].err, lastReply[p].body)

C9_Witness ==
  \E p \in Callers :
    /\ pc[p] = "done" /\ config.MaxRetries = 2
    /\ outcomes[p] = <<"4xx">> /\ sends[p] = 1
    /\ lastReply[p] = Reply(400, BadColumn)
    /\ ret[p].err.kind = ErrInvalidRequest
    /\ MessageContains(ret[p].err, BadColumn)

\* C10: a send answered 2xx with a parseable body is the call's last one: the
\* call has returned the ok envelope and a nil error; after a transient
\* failure (a 500) and then such a 200 the call made exactly 2 sends.
C10_SuccessEndsTheCall ==
  \A p \in Callers :
    \A k \in 1..Len(outcomes[p]) :
      outcomes[p][k] = "ok" =>
        /\ k = Len(outcomes[p])
        /\ sends[p] = k
        /\ pc[p] = "done"
        /\ ret[p].err = NilErr
        /\ ret[p].resp.Status = StatusOK
        /\ ret[p].resp.HTTPCode = lastReply[p].code

C10_Witness ==
  \E p \in Callers :
    /\ pc[p] = "done" /\ config.MaxRetries >= 1
    /\ outcomes[p] = <<"transient", "ok">> /\ sends[p] = 2
    /\ lastResp[p].HTTPCode = 500
    /\ lastReply[p] = Reply(200, GoodJson)
    /\ ret[p].resp.Status = StatusOK /\ ret[p].err = NilErr

\* what a JSON document decodes to
DecodedJson(body) ==
  IF body = GoodJson THEN "map[data:success]" ELSE "<nil>"

\* C11: a call whose last send was answered 2xx with a body that is valid
\* JSON has returned a nil error and the envelope with status ok, Data the
\* decoded body, an empty Error and HTTPCode the status of that response.
C11_OkEnvelopeCarriesDecodedBody ==
  \A p \in Callers :
    ( /\ outcomes[p] # <<>>
      /\ lastReply[p].kind = "resp"
      /\ lastReply[p].code \in 200..299
      /\ lastReply[p].body \in {GoodJson, NullJson} )
    => /\ pc[p] = "done"
       /\ ret[p].err = NilErr
       /\ ret[p].resp = [Status |-> "ok",
                         Data |-> DecodedJson(lastReply[p].body),
                         Error |-> "",
                         HTTPCode |-> lastReply[p].code]

C11_Witness ==
  \E p \in Callers :
    /\ pc[p] = "done" /\ sends[p] = 1
    /\ lastReply[p] = Reply(200, GoodJson)
    /\ ret[p].resp.Data = "map[data:success]"
    /\ ret[p].resp.HTTPCode = 200
    /\ ret[p].err = NilErr

\* C12: a call that returns "max retries exceeded" after a last send that
\* ended in a transport, read or parse error returns a nil envelope and an
\* error wrapping that last error; it returns an envelope only when its last
\* send was answered with an error status, and then the envelope of that
\* response.
C12_ExhaustedReportsLastAttempt ==
  \A p \in Callers :
    ( /\ pc[p] = "done"
      /\ ret[p].err.kind = MaxRetriesExceeded
      /\ outcomes[p] # <<>> )
    => IF lastReply[p].kind = "resp" /\ lastReply[p].code >= 300
         THEN ret[p].resp = EnvelopeOf(lastReply[p])
         ELSE /\ ret[p].resp = NilResp
              /\ ret[p].err.cause = lastErr[p].kind
              /\ MessageContains(ret[p].err, "max retries exceeded, last error: ")

\* C13: a call never makes more than MaxRetries+1 sends, whatever its sends
\* are answered and however many of its 401s led to a successful refresh.
C13_SendsWithinBudget ==
  \A p \in Callers : sends[p] <= config.MaxRetries + 1

C13_Witness ==
  \E p \in Callers :
    /\ pc[p] = "done" /\ config.MaxRetries = 2
    /\ sends[p] = 3 /\ refreshCalls[p] = 3
    /\ outcomes[p] = <<"401", "401", "401">>
    /\ refreshRet[p].err = NilErr
    /\ token \in IssuedTokens

\* C14: a refreshToken sends the client-credentials grant first when those
\* credentials are configured, sends the password grant only when they are
\* not or after the client-credentials exchange failed, and when every
\* exchange it sent has failed the error it returns is classified
\* ErrAuthenticationFailed.
C14_RefreshOrderAndClassification ==
  \A p \in Callers :
    /\ \A k \in 1..Len(grants[p]) :
         /\ grants[p][k] = "cc" => k = 1
         /\ grants[p][k] = "pw" =>
              \/ ~hasKeycloakClientCredentials(config)
              \/ k = 2 /\ grants[p][1] = "cc"
    /\ ( grants[p] # <<>> /\ hasKeycloakClientCredentials(config) )
         => grants[p][1] = "cc"
    /\ ( /\ pc[p] = "done"
         /\ grants[p] # <<>>
         /\ refreshRet[p].err # NilErr )
         => refreshRet[p].err.kind = ErrAuthenticationFailed

\* a call is inside a token exchange round trip
InExchange(p) == pc[p] \in {"exchangeCC", "exchangePW"}

\* C15: at any time at most one call is inside a token exchange and that call
\* holds authMutex; a step that writes the cached token is taken by the
\* holder of authMutex at the end of its own exchange, and no other call
\* moves in that step.
C15_TokenWrittenUnderLock ==
  /\ [](/\ Cardinality({p \in Callers : InExchange(p)}) <= 1
        /\ \A p \in Callers : InExchange(p) => authMutex = p)
  /\ [][ (token' # token \/ tokenSource' # tokenSource) =>
           /\ authMutex \in Callers
           /\ InExchange(authMutex)
           /\ pc'[authMutex] \notin {"exchangeCC", "exchangePW"}
           /\ authMutex' = NoHolder
           /\ refreshRet'[authMutex].token = token'
           /\ \A q \in Callers \ {authMutex} : pc'[q] = pc[q] ]_vars

C15_Witness ==
  \E p, q \in Callers :
    /\ p # q
    /\ InExchange(p) /\ authMutex = p
    /\ pc[q] = "lock" /\ waited[q]
    /\ token \in IssuedTokens

\* C16: the token a send in flight carries comes from the highest-priority
\* source available, client-credentials grant > password grant > static
\* token: a static token only when no OIDC scheme is configured with its
\* token endpoint or the call's refresh failed, a password-grant token only
\* when client credentials are not configured or their exchange failed.
C16_TokenSourceFollowsPriority ==
  \A p \in Callers :
    pc[p] = "send" =>
      /\ tokenSource \in {"static", "pw", "cc"}
      /\ tokenSource = "static" =>
           \/ FirstGrant(config) = "none"
           \/ refreshCalls[p] > 0 /\ refreshRet[p].err # NilErr
      /\ tokenSource = "pw" =>
           \/ ~hasKeycloakClientCredentials(config)
           \/ grants[p] = <<"cc", "pw">>
      /\ tokenSource = "cc" => hasKeycloakClientCredentials(config)

\* C17: GetToken returns the cached token when there is one, and the empty
\* string only when there is no cached token, Keycloak gave none and
\* HYPERFLUID_TOKEN is empty; after InitFromEnv the global configuration's
\* Token is non-empty whenever HYPERFLUID_TOKEN is set or Keycloak gave a
\* token.
C17_TokenFoundWheneverASourceHasOne ==
  /\ coreLast.op \in {"GetToken", "InitFromEnv"} =>
       /\ coreLast.before.Token # "" =>
            coreLast.result = coreLast.before.Token
       /\ coreLast.result = "" =>
            coreLast.env = "" /\ coreLast.acquired = ""
  /\ coreLast.op = "InitFromEnv" =>
       ( (coreLast.env # "" \/ coreLast.acquired # "")
         => globalConfiguration.Token # "" )

\* C18: the Client's configuration is what NewClient was given, with the
\* Token of its latest refresh, whatever the caller since wrote to the value
\* it passed or to a value GetConfig returned; the caller's value is what the
\* caller last wrote and a GetConfig result is what it was when returned or
\* what its holder wrote since, whatever the Client refreshed.
C18_ConfigurationsAreCopies ==
  /\ mem["caller"] = kept["caller"]
  /\ clientAt # NoPlace => mem[clientAt] = kept["client"]
  /\ snapAt # NoPlace => mem[snapAt] = kept["snapshot"]

C18_Witness ==
  /\ clientAt # NoPlace /\ snapAt # NoPlace
  /\ mem[clientAt].Token \in IssuedTokens
  /\ mem["caller"].Token = NoToken
  /\ mem["caller"].BaseURL # mem[clientAt].BaseURL
  /\ mem[snapAt].Token = StaticToken
  /\ mem[snapAt].BaseURL = mem[clientAt].BaseURL

\* the heads an error message of do can start with, one per error kind
KindPrefixes ==
  { ErrAuthenticationFailed, ErrPermissionDenied, ErrNotFound,
    ErrInvalidRequest, "max retries exceeded, last response was: " }

\* C19: the error of a call that returned on a response with status >= 300
\* (a terminal 401, 403, 404 or other 4xx, or the last 3xx/5xx of an
\* exhausted call) has a message that starts with the head of its kind and
\* contains the status code and the body of that response.
C19_ErrorMessageCarriesStatusAndBody ==
  \A p \in Callers :
    ( /\ pc[p] = "done"
      /\ outcomes[p] # <<>>
      /\ lastReply[p].kind = "resp"
      /\ lastReply[p].code >= 300
      /\ ret[p].err # NilErr )
    => /\ ret[p].err.msg[1] \in KindPrefixes
       /\ MessageContains(ret[p].err, ToString(lastReply[p].code))
       /\ MessageContains(ret[p].err, lastReply[p].body)

\* the ControlPlaneClients created for a Client and not closed
LiveInstances(owner) ==
  {k \in 1..Len(cpCreated) : cpCreated[k] = owner} \ cpClosed

\* C20: at any time at most one ControlPlaneClient created for a Client has
\* not been closed, the Client's cache entry is empty or holds that one, and
\* every goroutine whose ControlPlane() call returned a client that has not
\* been closed holds the one cached for the Client it called.
C20_OneControlPlaneClientPerClient ==
  /\ \A o \in Owners :
       /\ Cardinality(LiveInstances(o)) <= 1
       /\ controlPlaneClients[o] # NoInstance =>
            controlPlaneClients[o] \in LiveInstances(o)
  /\ \A p \in Callers :
       ( cpPc[p] = "done" /\ cpRet[p] # NoInstance /\ cpRet[p] \notin cpClosed )
       => cpRet[p] = controlPlaneClients[cpOn[p]]

C20_Witness ==
  \E p, q \in Callers :
    /\ p # q
    /\ cpOn[p] = "client" /\ cpOn[q] = "client"
    /\ cpPc[p] = "done" /\ cpRet[p] = 2 /\ controlPlaneClients["client"] = 2
    /\ cpCreated = <<"client", "client">>
    /\ cpClosed = {1}
    /\ cpPc[q] = "wcheck" /\ cpWriter = q

\* the call named last was given an argument the builder rejects
BadCall(c) ==
  \/ c.method \in {"Org", "Catalog", "Schema", "Table"} /\ c.name = ""
  \/ c.method \in {"Limit", "Offset"} /\ c.n < 0
  \/ c.method = "Where" /\ c.name = "~"
  \/ c.method = "OrderBy" /\ c.direction = <<"u", "p">>

\* C21: an empty organisation, catalog, schema or table name, a negative
\* limit or offset, an invalid operator and an invalid order direction each
\* record a validation error; and Get, Count, Post, Put or Delete called on a
\* builder that holds a recorded error, or whose organisation id, catalog,
\* schema or table is empty, returns an error and hands nothing to client.do.
C21_InvalidBuilderSendsNothing ==
  /\ BadCall(qbLast) => qb.errors # <<>>
  /\ ( /\ qbRet.op # "none"
       /\ \/ qb.errors # <<>>
          \/ qb.orgID = "" \/ qb.catalogName = ""
          \/ qb.schemaName = "" \/ qb.tableName = "" )
     => qbRet.err # NilErr /\ ~qbRet.sent /\ qbRet.params = NoParams

\* Get on a builder whose four names are set and whose Limit was negative
C21_Witness ==
  /\ qbRet.op = "Get"
  /\ qb.errors = <<"limit cannot be negative">>
  /\ qb.orgID # "" /\ qb.catalogName # ""
  /\ qb.schemaName # "" /\ qb.tableName # ""
  /\ qbRet.err # NilErr /\ ~qbRet.sent

\* direction d spells the word, in any mix of upper and lower case
Spells(d, lower, upper) ==
  /\ Len(d) = Len(lower)
  /\ \A k \in 1..Len(d) : d[k] \in {lower[k], upper[k]}

\* the order parameter of a list of clauses: column, ".asc" or ".desc", and
\* a comma between two clauses
ExpectedOrder(clauses) ==
  [j \in 1..(3 * Len(clauses) - 1) |->
     CASE j % 3 = 1 -> clauses[(j + 2) \div 3].Column
       [] j % 3 = 2 -> IF clauses[(j + 2) \div 3].Direction = DESC
                         THEN ".desc" ELSE ".asc"
       [] OTHER -> ","]

\* C22: OrderBy with an empty direction, or with ASC in any case, appends an
\* ascending clause at the end of the list, with DESC in any case a
\* descending one, and records no error; with any other direction it records
\* a validation error and leaves the list as it was; and a request that
\* carries query parameters has the clauses, in the order of the calls, as
\* its order parameter.
C22_OrderByKeepsCallOrder ==
  [][ /\ qbLast'.method = "OrderBy" =>
           IF \/ qbLast'.direction = <<>>
              \/ Spells(qbLast'.direction, <<"a", "s", "c">>, ASC)
             THEN /\ qb'.orderBy =
                       Append(qb.orderBy, [Column |-> qbLast'.name,
                                           Direction |-> ASC])
                  /\ qb'.errors = qb.errors
           ELSE IF Spells(qbLast'.direction, <<"d", "e", "s", "c">>, DESC)
             THEN /\ qb'.orderBy =
                       Append(qb.orderBy, [Column |-> qbLast'.name,
                                           Direction |-> DESC])
                  /\ qb'.errors = qb.errors
           ELSE /\ qb'.orderBy = qb.orderBy
                /\ Len(qb'.errors) = Len(qb.errors) + 1
      /\ (qbRet'.sent /\ qbRet'.op # "Post") =>
           qbRet'.params.order = ExpectedOrder(qb.orderBy)
    ]_vars

\* Get sends "b.desc,a.asc" after OrderBy("b", "Desc") and OrderBy("a", "")
C22_Witness ==
  /\ qbRet.op = "Get" /\ qbRet.sent
  /\ qb.orderBy = <<[Column |-> "b", Direction |-> DESC],
                    [Column |-> "a", Direction |-> ASC]>>
  /\ qbRet.params.order = <<"b", ".desc", ",", "a", ".asc">>

\* the payload the request's type requires is nil or has its required field
\* empty
RequiredPayloadAbsent(req) ==
  \/ req.Type = "RequestGraphQL"
     /\ (req.GraphQLPayload.isNil \/ req.GraphQLPayload.required = "")
  \/ req.Type = "RequestOpenAPI"
     /\ (req.OpenAPIPayload.isNil \/ req.OpenAPIPayload.required = "")
  \/ req.Type = "RequestPostgres"
     /\ (req.PostgresPayload.isNil \/ req.PostgresPayload.required = "")

\* C23: on an uninitialised configuration HandleRequest returns the
\* uninitialised error for every request; with the configuration initialised
\* and an organisation id set, a request whose type is none of GraphQL,
\* OpenAPI and Postgres, or whose payload for its type is nil or has its
\* required field empty, gets a nil response and a non-nil error, and no
\* executor (no network or database call) is run.
C23_InvalidRequestIsRefusedUnsent ==
  handled # NotHandled =>
    /\ globalConfiguration.isNil =>
         handled = [resp |-> NilResp, err |-> Sentinel("ErrorUninitialized"),
                    executor |-> "none"]
    /\ ( /\ ~globalConfiguration.isNil
         /\ globalConfiguration.OrgID # ""
         /\ \/ bifrostRequest.Type \notin
                 {"RequestGraphQL", "RequestOpenAPI", "RequestPostgres"}
            \/ RequiredPayloadAbsent(bifrostRequest) )
       => /\ handled.resp = NilResp
          /\ handled.err # NilErr
          /\ handled.executor = "none"

\* a GraphQL request whose payload is there with an empty query, refused
C23_Witness ==
  /\ ~globalConfiguration.isNil
  /\ globalConfiguration.OrgID # ""
  /\ bifrostRequest.Type = "RequestGraphQL"
  /\ ~bifrostRequest.GraphQLPayload.isNil
  /\ bifrostRequest.GraphQLPayload.required = ""
  /\ handled.resp = NilResp
  /\ handled.err = Sentinel("ErrorInvalidRequest")
  /\ handled.executor = "none"

\* C24: what do does with a response is fixed by its status code, and every
\* code is in exactly one class: below 300 success (the body is parsed), 401
\* authentication, 403 Permission-Denied, 404 Not-Found, any other code of
\* 400..499 Invalid-Request, and every other code from 300 up retried.
C24_StatusClassesPartitionTheCodes ==
  stHandling # "none" =>
    /\ stHandling \in {"success", "unauthorized", "forbidden", "notfound",
                       "client", "retry"}
    /\ stHandling = "success" <=> stCode < 300
    /\ stHandling = "unauthorized" <=> stCode = 401
    /\ stHandling = "forbidden" <=> stCode = 403
    /\ stHandling = "notfound" <=> stCode = 404
    /\ stHandling = "client" <=>
         (stCode \in 400..499 /\ stCode \notin {401, 403, 404})
    /\ stHandling = "retry" <=> (stCode >= 300 /\ stCode \notin 400..499)

\* status 300, the first code that is not a success, is retried
C24_Witness == stCode = 300 /\ stHandling = "retry"

\* 2 to the power n, by repeated doubling
RECURSIVE Doubled(_)
Doubled(n) == IF n = 0 THEN 1 ELSE 2 * Doubled(n - 1)

\* the sum of a sequence of delays
RECURSIVE Total(_)
Total(seq) == IF seq = <<>> THEN 0 ELSE Head(seq) + Total(Tail(seq))

\* C25: the k-th wait of a call lasts 100 * 2^(k-1) milliseconds; send
\* attempt 0 is preceded by no wait and send attempt n by the n waits of
\* 100, 200, 400, ... milliseconds; and a call that returns "max retries
\* exceeded" with MaxRetries = N has waited 100 * (2^N - 1) milliseconds in
\* all.
C25_BackoffDoublesFrom100ms ==
  \A p \in Callers :
    /\ Len(delays[p]) = sleeps[p]
    /\ \A k \in 1..Len(delays[p]) : delays[p][k] = 100 * Doubled(k - 1)
    /\ pc[p] = "send" => Len(delays[p]) = i[p]
    /\ (pc[p] = "done" /\ ret[p].err.kind = MaxRetriesExceeded) =>
         Total(delays[p]) = 100 * (Doubled(config.MaxRetries) - 1)

\* a call with MaxRetries = 2 runs out after waits of 100 and 200 ms
C25_Witness ==
  /\ config.MaxRetries = 2
  /\ pc[Solo] = "done"
  /\ ret[Solo].err.kind = MaxRetriesExceeded
  /\ delays[Solo] = <<100, 200>>
  /\ sends[Solo] = 3

\* C26: a response below 300 whose body is not JSON (an empty body included)
\* does not end the call: do goes on to the next attempt; and when every
\* send of a call ended this way, the call returns, after MaxRetries + 1
\* sends, a nil envelope and a "max retries exceeded" error that wraps the
\* parse error.
C26_UnparsableSuccessIsRetried ==
  \A p \in Callers :
    /\ ( /\ outcomes[p] # <<>>
         /\ lastReply[p].kind = "resp"
         /\ lastReply[p].code < 300
         /\ lastReply[p].body \in {EmptyBody, HtmlBody}
         /\ Len(outcomes[p]) <= config.MaxRetries
         /\ ~ctxDone[p] )
       => /\ pc[p] \in {"backoff", "build", "send"}
          /\ i[p] = Len(outcomes[p])
    /\ ( /\ pc[p] = "done"
         /\ sends[p] > 0
         /\ parseFailures[p] = sends[p]
         /\ ~ctxDone[p] )
       => /\ sends[p] = config.MaxRetries + 1
          /\ ret[p].resp = NilResp
          /\ ret[p].err.kind = MaxRetriesExceeded
          /\ ret[p].err.cause = "failed to parse response body"
          /\ MessageContains(ret[p].err, "failed to parse response body: ")

\* three sends answered 200 with an empty or non-JSON body, then exhaustion
C26_Witness ==
  /\ config.MaxRetries = 2
  /\ pc[Solo] = "done"
  /\ sends[Solo] = 3
  /\ parseFailures[Solo] = 3
  /\ lastReply[Solo].body = EmptyBody
  /\ ret[Solo].resp = NilResp
  /\ ret[Solo].err.kind = MaxRetriesExceeded

\* no OIDC scheme is configured: neither both client id and secret nor both
\* user name and password
NoSchemeConfigured(c) ==
  /\ c.KeycloakClientID = "" \/ c.KeycloakClientSecret = ""
  /\ c.KeycloakUsername = "" \/ c.KeycloakPassword = ""

\* C27: without an OIDC scheme do never calls refreshToken; and a call whose
\* last send was answered 401, with no scheme configured or with a refresh
\* that failed, has returned the envelope of that 401 and
\* Authentication-Failed right after that send, whatever its attempt budget:
\* no further send and no wait followed.
C27_UnrefreshableUnauthorizedIsTerminal ==
  \A p \in Callers :
    /\ NoSchemeConfigured(config) => refreshCalls[p] = 0
    /\ ( /\ outcomes[p] # <<>>
         /\ Last(outcomes[p]) = "401"
         /\ sends[p] = Len(outcomes[p])
         /\ \/ NoSchemeConfigured(config)
            \/ pc[p] \notin {"lock", "exchangeCC", "exchangePW"}
               /\ refreshRet[p].err # NilErr )
       => /\ pc[p] = "done"
          /\ ret[p].resp = EnvelopeOf(lastReply[p])
          /\ ret[p].err = Sentinel(ErrAuthenticationFailed)
          /\ sleeps[p] = Len(outcomes[p]) - 1

\* a first send answered 401 on a client without credentials and with
\* retries left
C27_Witness ==
  /\ NoSchemeConfigured(config)
  /\ config.MaxRetries = 2
  /\ outcomes[Solo] = <<"401">>
  /\ pc[Solo] = "done"
  /\ ret[Solo].err = Sentinel(ErrAuthenticationFailed)
  /\ sends[Solo] = 1
  /\ refreshCalls[Solo] = 0

\* C28: one call of do makes at most one refreshToken call: a send made after
\* a successful refresh and answered 401 again starts no second refresh.
C28_AtMostOneRefreshPerCall ==
  \A p \in Callers : refreshCalls[p] <= 1

InRefresh(p) == pc[p] \in {"lock", "exchangeCC", "exchangePW"}

\* C30: a refreshToken call that returns an error leaves the cached token as
\* it was, and the cached token changes only in the step in which an
\* exchange succeeds, to the token that exchange returned.
C30_FailedRefreshKeepsTheToken ==
  [][ /\ \A p \in Callers :
           (InRefresh(p) /\ ~InRefresh(p)' /\ refreshRet'[p].err # NilErr)
             => token' = token
      /\ token' # token =>
           \E p \in Callers :
             /\ pc[p] \in {"exchangeCC", "exchangePW"}
             /\ ~InRefresh(p)'
             /\ refreshRet'[p] = [token |-> token', err |-> NilErr]
    ]_vars

\* a refresh whose two exchanges both failed returned an error, and the
\* token is still the static one
C30_Witness ==
  \E p \in Callers :
    /\ pc[p] = "done"
    /\ grants[p] = <<"cc", "pw">>
    /\ refreshRet[p].err # NilErr
    /\ token = StaticToken
    /\ exchanges = 2

\* the reply is a 200 whose JSON body has a non-empty string access_token
CarriesAccessToken(reply) ==
  /\ reply.kind = "resp"
  /\ reply.code = 200
  /\ reply.body.valid
  /\ \E m \in reply.body.members :
       m[1] = "access_token" /\ m[2] = "string" /\ m[3] # ""

\* C31: a token exchange returns without error exactly when its request was
\* sent and answered 200 with a JSON body whose access_token is a non-empty
\* string, and it then returns that string; sent and answered otherwise (no
\* answer, another status, malformed JSON, access_token absent, not a
\* string or empty) it returns an ErrAuthenticationFailed error; with the
\* base URL or the realm missing it returns an ErrInvalidConfiguration error
\* and sends nothing.
C31_ExchangeSucceedsOnlyOnAUsableToken ==
  \A c \in ClientIDs :
    LET x == clients[c].exchanged
    IN  x.grant # "none" =>
          /\ (x.err = NilErr) <=> (x.sent /\ CarriesAccessToken(x.reply))
          /\ x.err = NilErr =>
               /\ x.token # ""
               /\ <<"access_token", "string", x.token>> \in x.reply.body.members
               /\ clients[c].token = x.token
          /\ (x.sent /\ ~CarriesAccessToken(x.reply)) =>
               /\ x.err.kind = ErrAuthenticationFailed
               /\ x.token = ""
          /\ ( \/ clients[c].config.KeycloakBaseURL = ""
               \/ clients[c].config.KeycloakRealm = "" ) =>
               /\ x.err.kind = ErrInvalidConfiguration
               /\ ~x.sent
               /\ x.token = ""

C31_Witness ==
  \E c, d \in ClientIDs :
    /\ clients[c].exchanged.sent
    /\ clients[c].exchanged.err = NilErr
    /\ clients[c].exchanged.token = "tokB"
    /\ clients[d].exchanged.grant = "pw"
    /\ clients[d].exchanged.sent
    /\ clients[d].exchanged.reply = TokenJson("")
    /\ clients[d].exchanged.err.kind = ErrAuthenticationFailed

\* C32: the refresh lock belongs to the Client: no refreshToken call on one
\* Client waits at authMutex.Lock() while the lock is held by a refreshToken
\* call on a different Client.
C32_RefreshNeverWaitsForAnotherClient ==
  \A a, b \in ClientIDs :
    (a # b /\ clients[a].pc = "lock") => authMutex # b

\* C33: Close of a ControlPlaneClient deletes the cache entry that holds it
\* and leaves every other Client's entry as it was, and Close of an instance
\* closed before changes nothing; a ControlPlane() call that returns an error
\* leaves the cache as it was; and the ControlPlane() call that finds the
\* entry of its Client empty after an instance of that Client was closed
\* creates an instance never seen before, caches it and returns it.
C33_CloseRemovesItsOwnEntryOnly ==
  [][\A p \in Callers :
       /\ ( /\ cpPc[p] = "done" /\ cpPc'[p] = "idle"
            /\ cpRet[p] # NoInstance /\ cpRet[p] \in cpClosed' )
          => /\ \A o \in Owners :
                  controlPlaneClients'[o] =
                    IF o = cpCreated[cpRet[p]]
                       /\ controlPlaneClients[o] = cpRet[p]
                      THEN NoInstance
                      ELSE controlPlaneClients[o]
             /\ cpRet[p] \in cpClosed =>
                  controlPlaneClients' = controlPlaneClients
       /\ ( /\ cpPc[p] \in {"rcheck", "wcheck"} /\ cpPc'[p] = "done"
            /\ cpRet'[p] = NoInstance )
          => controlPlaneClients' = controlPlaneClients
       /\ ( /\ cpPc[p] = "wcheck" /\ cpPc'[p] = "done"
            /\ controlPlaneClients[cpOn[p]] = NoInstance
            /\ \E k \in cpClosed : cpCreated[k] = cpOn[p] )
          => /\ cpRet'[p] \notin (0..Len(cpCreated)) \cup cpClosed
             /\ controlPlaneClients'[cpOn[p]] = cpRet'[p]
             /\ cpCreated' = Append(cpCreated, cpOn[p])
             /\ \A o \in Owners \ {cpOn[p]} :
                  controlPlaneClients'[o] = controlPlaneClients[o]
    ]_vars

C33_Witness ==
  /\ cpCreated = <<"client", "other", "client">>
  /\ cpClosed = {1}
  /\ controlPlaneClients = [o \in Owners |->
                              IF o = "client" THEN 3 ELSE 2]
  /\ \E p \in Callers : cpPc[p] = "done" /\ cpRet[p] = 3

\* C34: after the same chain of Select, Where, OrderBy, Limit, Offset and
\* RawParams calls with valid arguments, Get of the TableQueryBuilder sends
\* the query parameters Get of the QueryBuilder sends: the same keys with the
\* same values.
C34_ProgressiveParamsEqualFluent ==
  (qbRet.sent /\ tqRet.sent) => tqRet.params = qbRet.params

\* the Results sent on the channel that the caller has received or will find
\* buffered
Delivered == SelectSeq(received \o resultChan.buf, LAMBDA r : r.ok)

\* C35: the goroutine of Request is never kept waiting by its send; the
\* channel carries at most one Result, which is what HandleRequest returned,
\* and carries it from the send on; the channel is closed exactly when the
\* goroutine has ended, after the send; and the caller gets the zero Result
\* of a closed channel only after it got the Result.
C35_OneResultThenClosed ==
  /\ requestPc = "send" => ENABLED SendResult
  /\ Len(Delivered) <= 1
  /\ requestPc \in {"close", "exited"} =>
       Delivered = <<[Response |-> handled.resp, Error |-> handled.err,
                      ok |-> TRUE]>>
  /\ requestPc \in {"none", "handle", "send"} => Delivered = <<>>
  /\ resultChan.closed <=> requestPc = "exited"
  /\ \A k \in 1..Len(received) :
       ~received[k].ok => (k > 1 /\ received[1].ok /\ resultChan.closed)

\* the goroutine has ended although the caller never received
C35_Witness ==
  /\ requestPc = "exited"
  /\ received = <<>>
  /\ bifrostRequest.Type = "invalid"
  /\ resultChan =
       [buf |-> <<[Response |-> NilResp,
                   Error |-> Sentinel("ErrorUnsupportedRequestType"),
                   ok |-> TRUE]>>,
        closed |-> TRUE]

\* C36: whenever do stores an envelope in lastResp, it is an error envelope
\* carrying the status code, 300 or more, and the body of the response just
\* received; and whenever do returns an envelope that is not nil, the error
\* is nil exactly when the envelope's status is ok, an ok envelope has the
\* code of the response just received, below 300, and an empty Error, and an
\* error envelope is the one stored last, with a code of 300 or more.
C36_EnvelopeAgreesWithError ==
  [][\A p \in Callers :
       /\ lastResp'[p] # lastResp[p] =>
            /\ lastReply'[p].kind = "resp"
            /\ lastReply'[p].code >= 300
            /\ lastResp'[p].Status = StatusError
            /\ lastResp'[p].Error = lastReply'[p].body
            /\ lastResp'[p].HTTPCode = lastReply'[p].code
       /\ (pc[p] # "done" /\ pc'[p] = "done" /\ ret'[p].resp # NilResp) =>
            /\ ret'[p].resp.Status \in {StatusOK, StatusError}
            /\ ret'[p].err = NilErr <=> ret'[p].resp.Status = StatusOK
            /\ ret'[p].resp.Status = StatusOK =>
                 /\ ret'[p].resp.HTTPCode = lastReply'[p].code
                 /\ ret'[p].resp.HTTPCode < 300
                 /\ ret'[p].resp.Error = ""
            /\ ret'[p].resp.Status = StatusError =>
                 /\ ret'[p].resp = lastResp'[p]
                 /\ ret'[p].resp.HTTPCode >= 300]_vars

\* do has returned, after a transport error, the envelope of the 503 it got
\* on an earlier attempt
C36_Witness ==
  /\ pc[Solo] = "done"
  /\ ret[Solo].resp =
       [Status |-> StatusError, Data |-> "", Error |-> BadColumn,
        HTTPCode |-> 503]
  /\ ret[Solo].err.kind = MaxRetriesExceeded
  /\ lastReply[Solo] = TransportError

C38_TokenOnceSetStaysSet ==
  [][/\ token # NoToken => token' # NoToken
     /\ token' # token =>
          /\ token' # NoToken
          /\ \E p \in Callers :
               /\ authMutex = p
               /\ pc[p] \in {"exchangeCC", "exchangePW"}
               /\ refreshRet'[p] = [token |-> token', err |-> NilErr]
          /\ \E reply \in ConcTokenReplies :
               /\ ExchangeResult(reply).err = NilErr
               /\ ExchangeResult(reply).token = token']_vars

\* both goroutines have refreshed, one after the other, and the cache holds
\* the token of the later refresh
C38_Witness ==
  /\ refreshRet["c1"] = [token |-> "tokA", err |-> NilErr]
  /\ refreshRet["c2"] = [token |-> "tokB", err |-> NilErr]
  /\ token = "tokB"
  /\ authMutex = NoHolder

\* C39: when every send and every token exchange returns, each of two
\* concurrent Do calls on one client that has started eventually returns,
\* and a goroutine that holds authMutex eventually gives it up, whether its
\* refresh succeeds or fails.
C39_EveryCallReturnsEveryLockIsReleased ==
  /\ \A p \in Callers : (pc[p] # "idle") ~> (pc[p] = "done")
  /\ \A p \in Callers : (authMutex = p) ~> (authMutex # p)

\* both calls have returned and the lock is free; one goroutine waited for
\* the lock while the other refreshed, one refresh succeeded and one failed
C39_Witness ==
  /\ pc = [p \in Callers |-> "done"]
  /\ authMutex = NoHolder
  /\ waited["c2"]
  /\ refreshRet["c1"].err = NilErr /\ refreshRet["c1"].token # ""
  /\ refreshRet["c2"].err # NilErr
  /\ refreshCalls["c1"] = 1 /\ refreshCalls["c2"] = 1

\* C40: no builder call and no terminal operation removes or alters an error
\* the builder has recorded: the errors recorded before a step are the first
\* ones recorded after it; and a terminal operation on a builder with a
\* recorded error fails with the validation error that lists them and sends
\* nothing, whatever the builder's fields are by then.
C40_RecordedErrorsAreKept ==
  [][/\ Len(qb'.errors) >= Len(qb.errors)
     /\ SubSeq(qb'.errors, 1, Len(qb.errors)) = qb.errors
     /\ (qbRet'.op # "none" /\ qb.errors # <<>>) =>
          /\ qbRet'.err.kind = "query builder validation failed"
          /\ qbRet'.err.msg =
               <<"query builder validation failed: ">> \o
               Join(qb.errors, "; ")
          /\ ~qbRet'.sent]_vars

\* Catalog("") then Catalog("n"): the four names are set when Get is called,
\* and Get fails on the error the first call recorded
C40_Witness ==
  /\ qbRet.op = "Get"
  /\ qb.errors = <<"catalog name cannot be empty">>
  /\ qb.orgID # "" /\ qb.catalogName = "n"
  /\ qb.schemaName # "" /\ qb.tableName # ""
  /\ qb.filters = <<>>
  /\ qbRet.err.kind = "query builder validation failed"
  /\ ~qbRet.sent

====
